---- MODULE Spec2Model ----
(***************************************************************************)
(* A model of YamlPartitioner: the rendezvous (HRW) table of lib/hrw, the  *)
(* YAML shard walker of lib/partitioner and its Partitioner.Run.           *)
(*                                                                         *)
(* 64-bit words are little-endian tuples of 8 bytes, so that the xorshift  *)
(* mixer is computed exactly modulo 2^64.                                  *)
(***************************************************************************)
EXTENDS Integers, Sequences, FiniteSets, TLC

VARIABLES
    hasher,      \* Rendezvous.hasher: the name of the Hasher the table was built with
    nodes,       \* Rendezvous.nodes: name -> index
    nodeHashes,  \* Rendezvous.nodeHashes
    nodeNames,   \* Rendezvous.nodeNames
    newErr,      \* the error New returned, "" for nil
    panicked,    \* a call on the table panicked (index out of range)
    twin,        \* a second table built by New, as in TestSameDistribution
    last,        \* the last call: its arguments, its result, the table before it
    cfg,         \* partitioner.Config, and the error NewConfig returned
    input,       \* the yaml document the shards read, as the tree of yaml.Node it decodes to
    shards,      \* shard name -> the shard after Run: head node, counters, error
    part,        \* partitioner.Partitioner, its Run, the shard tasks and the output files
    job,         \* app.job, its run, the goroutine of each input file and errs
    lookup       \* a Get or GetN in flight on the table, between two of its reads

(***************************************************************************)
(* uint64 arithmetic                                                       *)
(***************************************************************************)

\* An element of a Go slice (0-based index) held in a TLA+ sequence.
At(s, i) == s[i + 1]

\* Byte j (0 = least significant) of the word w, 0 outside the word.
ByteAt(w, j) == IF j >= 0 /\ j <= 7 THEN w[j + 1] ELSE 0

\* The exclusive or of two 4-bit numbers, tabulated once.
XorNibble ==
    [a \in 0..15 |-> [b \in 0..15 |->
        ((a + b) % 2)
      + (((a \div 2) + (b \div 2)) % 2) * 2
      + (((a \div 4) + (b \div 4)) % 2) * 4
      + (((a \div 8) + (b \div 8)) % 2) * 8]]

XorByte(a, b) == XorNibble[a % 16][b % 16] + 16 * XorNibble[a \div 16][b \div 16]

\* The 8 bytes f[1..8] as a tuple.
Word(f) == SubSeq(f, 1, 8)

\* a ^ b
Xor64(a, b) == Word([i \in 1..8 |-> XorByte(a[i], b[i])])

\* x >> s
Shr64(w, s) ==
    LET q == s \div 8
        r == s % 8
    IN  Word([i \in 1..8 |->
            (ByteAt(w, i - 1 + q) \div (2 ^ r)) + (ByteAt(w, i + q) % (2 ^ r)) * (2 ^ (8 - r))])

\* x << s, truncated to 64 bits
Shl64(w, s) ==
    LET q == s \div 8
        r == s % 8
    IN  Word([i \in 1..8 |->
            ((ByteAt(w, i - 1 - q) * (2 ^ r)) % 256) + (ByteAt(w, i - 2 - q) \div (2 ^ (8 - r)))])

RECURSIVE MulColumn(_, _, _, _)
\* Column k (0-based) of the schoolbook product a * c: the terms a[i] * c[k - i]
\* for i from the given one up to k.
MulColumn(a, c, k, i) ==
    IF i > k THEN 0 ELSE a[i + 1] * c[k - i + 1] + MulColumn(a, c, k, i + 1)

RECURSIVE MulCarry(_, _, _)
\* The bytes of the product from column k on, given the carry into column k.
MulCarry(cols, k, carry) ==
    IF k > 8 THEN <<>>
    ELSE <<(cols[k] + carry) % 256>> \o MulCarry(cols, k + 1, (cols[k] + carry) \div 256)

\* a * c modulo 2^64
Mul64(a, c) == MulCarry(Word([k \in 1..8 |-> MulColumn(a, c, k - 1, 0)]), 1, 0)

RECURSIVE GtFrom(_, _, _)
GtFrom(a, b, i) ==
    IF i = 0 THEN FALSE
    ELSE IF a[i] # b[i] THEN a[i] > b[i]
    ELSE GtFrom(a, b, i - 1)

\* a > b as unsigned 64-bit integers
Gt64(a, b) == GtFrom(a, b, 8)

\* uint64(n) for a small non-negative n
U64(n) == <<n % 256, (n \div 256) % 256, (n \div 65536) % 256, 0, 0, 0, 0, 0>>

\* 2685821657736338717 = 0x2545F4914F6CDD1D
xorshiftMultiplier == <<29, 221, 108, 79, 145, 244, 69, 37>>

\* x ^= x >> 12
xorshiftA(x) == Xor64(x, Shr64(x, 12))

\* x ^= x << 25
xorshiftB(x) == Xor64(x, Shl64(x, 25))

\* x ^= x >> 27
xorshiftC(x) == Xor64(x, Shr64(x, 27))

xorshiftMult64(x) == Mul64(xorshiftC(xorshiftB(xorshiftA(x))), xorshiftMultiplier)

(***************************************************************************)
(* Hasher: the plug-in byte hash handed to hrw.New                         *)
(***************************************************************************)

\* xxhash.Sum64 of the byte strings the model uses (the hasher of the tests):
\* node names, keys, shard names and the items yaml.Marshal makes of the
\* children of a split point.
xxhashDigests ==
    ("node0" :> <<68, 242, 187, 168, 232, 119, 59, 121>>)
 @@ ("node1" :> <<217, 31, 210, 180, 13, 207, 216, 243>>)
 @@ ("default" :> <<150, 28, 86, 92, 138, 189, 20, 203>>)
 @@ ("node2" :> <<51, 43, 153, 5, 24, 121, 184, 250>>)
 @@ ("node3" :> <<10, 186, 34, 5, 207, 12, 144, 53>>)
 @@ ("hello" :> <<163, 109, 159, 136, 125, 130, 199, 38>>)
 @@ ("world" :> <<239, 81, 238, 102, 254, 251, 120, 231>>)
 @@ ("key" :> <<52, 67, 225, 45, 86, 98, 119, 68>>)
 @@ ("a" :> <<91, 110, 140, 169, 241, 196, 78, 210>>)
 @@ ("alpha" :> <<72, 88, 218, 29, 1, 225, 88, 199>>)
 @@ ("beta" :> <<196, 152, 142, 57, 144, 41, 238, 245>>)
 @@ ("gamma" :> <<248, 31, 128, 26, 30, 226, 7, 119>>)
 @@ ("delta" :> <<15, 158, 4, 117, 78, 17, 197, 33>>)
 @@ ("epsilon" :> <<170, 238, 64, 193, 216, 203, 79, 166>>)
 @@ ("foo\n" :> <<45, 85, 36, 24, 140, 12, 60, 112>>)
 @@ ("bar\n" :> <<135, 167, 66, 56, 76, 170, 58, 127>>)
 @@ ("baz\n" :> <<19, 91, 109, 1, 236, 93, 74, 106>>)
 @@ ("qux\n" :> <<64, 172, 236, 2, 213, 248, 84, 52>>)
 @@ ("&a\nx: foo\n" :> <<94, 204, 48, 168, 39, 155, 178, 86>>)
 @@ ("&b bar\n" :> <<212, 13, 239, 2, 237, 208, 55, 97>>)
 @@ ("&a foo\n" :> <<55, 49, 6, 167, 19, 18, 217, 33>>)
 @@ ("&a bar\n" :> <<224, 171, 239, 18, 92, 236, 150, 136>>)
 @@ ("y: *a\n" :> <<149, 40, 185, 226, 28, 68, 6, 235>>)
 @@ ("&c\n- foo\n- bar\n" :> <<73, 26, 200, 186, 34, 135, 210, 240>>)

\* The hashers a table is built with: xxhash.Sum64, and the byte length of the
\* input (a Hasher under which names of equal length collide).
Hashers == {"xxhash", "length"}

\* hasher(b), for the input bytes b
Hasher(h, b) == IF h = "xxhash" THEN xxhashDigests[b] ELSE U64(Len(b))

\* Every word a hasher of the model returns.
HashWords == {Hasher(h, b) : h \in Hashers, b \in DOMAIN xxhashDigests}

\* The words keyHash ^ nodeHash can be.
MixInputs == {Xor64(k, n) : k \in HashWords, n \in HashWords}

\* xorshiftMult64 tabulated once over MixInputs, in rows by the lowest byte.
MixTable ==
    [b \in 0..255 |-> [x \in {y \in MixInputs : y[1] = b} |-> xorshiftMult64(x)]]

\* xorshiftMult64(x), read from the table where it holds x.
Mix(x) ==
    LET row == MixTable[x[1]]
    IN  IF x \in DOMAIN row THEN row[x] ELSE xorshiftMult64(x)

(***************************************************************************)
(* Rendezvous                                                              *)
(***************************************************************************)

Range(s) == {s[i] : i \in 1..Len(s)}

Min(a, b) == IF a < b THEN a ELSE b
Max(a, b) == IF a > b THEN a ELSE b

RECURSIVE NewScanAdjacent(_, _, _)
\* The first loop of New with a memo that holds the previous name only: a name
\* repeated further apart goes unnoticed.
NewScanAdjacent(list, i, memo) ==
    IF i > Len(list) THEN ""
    ELSE IF list[i] \in memo THEN list[i]
    ELSE NewScanAdjacent(list, i + 1, {list[i]})

RECURSIVE NewScan(_, _, _)
\* The first loop of New: the name that repeats first, "" when none does.
NewScan(list, i, memo) ==
    IF i > Len(list) THEN ""
    ELSE IF list[i] \in memo THEN list[i]
    ELSE NewScan(list, i + 1, memo \cup {list[i]})

\* The table a Rendezvous holds before New fills it, and after New fails.
NilTable == [hasher |-> "", nodes |-> <<>>, nodeHashes |-> <<>>, nodeNames |-> <<>>]

Reverse(s) == [i \in 1..Len(s) |-> s[Len(s) + 1 - i]]

\* New filling the table by ranging over memo, a map, for uniqNodes: the names
\* come in another order than the arguments (here the reverse).
NewInMapOrder(h, list) ==
    LET dup == NewScan(list, 1, {})
        order == Reverse(list)
    IN  IF dup # ""
        THEN [err |-> "duplicated node name: " \o dup, r |-> NilTable]
        ELSE [err |-> "",
              r |-> [hasher |-> h,
                     nodes |-> [n \in Range(list) |-> (CHOOSE i \in 1..Len(order) : order[i] = n) - 1],
                     nodeHashes |-> [i \in 1..Len(order) |-> Hasher(h, order[i])],
                     nodeNames |-> order]]

\* New(hasher, nodes...): the error ("" for none) and the table.
New(h, list) ==
    LET dup == NewScan(list, 1, {})
    IN  IF dup # ""
        THEN [err |-> "duplicated node name: " \o dup, r |-> NilTable]
        ELSE [err |-> "",
              r |-> [hasher |-> h,
                     nodes |-> [n \in Range(list) |-> (CHOOSE i \in 1..Len(list) : list[i] = n) - 1],
                     nodeHashes |-> [i \in 1..Len(list) |-> Hasher(h, list[i])],
                     nodeNames |-> list]]

NodeNames(r) == r.nodeNames

NodesCount(r) == Len(r.nodeNames)

\* len(r.nodes)
LenNodes(r) == Cardinality(DOMAIN r.nodes)

\* addNode putting the name in front of r.nodeNames while the hash goes to the
\* end of r.nodeHashes.
addNodeFront(r, node) ==
    IF node \in DOMAIN r.nodes THEN r
    ELSE [r EXCEPT !.nodes = (node :> Len(r.nodeNames)) @@ r.nodes,
                   !.nodeNames = <<node>> \o r.nodeNames,
                   !.nodeHashes = Append(r.nodeHashes, Hasher(r.hasher, node))]

addNode(r, node) ==
    IF node \in DOMAIN r.nodes THEN r
    ELSE [r EXCEPT !.nodes = (node :> Len(r.nodeNames)) @@ r.nodes,
                   !.nodeNames = Append(r.nodeNames, node),
                   !.nodeHashes = Append(r.nodeHashes, Hasher(r.hasher, node))]

RECURSIVE AddFrom(_, _, _)
AddFrom(r, list, i) ==
    IF i > Len(list) THEN r ELSE AddFrom(addNode(r, list[i]), list, i + 1)

\* Add(nodes...)
Add(r, list) == AddFrom(r, list, 1)

\* The comparison with h >= maxHash for h > maxHash: of equal weights the last
\* wins.
greaterOrEqual(i, h, max) == IF ~Gt64(max.hash, h) THEN [idx |-> i, hash |-> h] ELSE max

\* The body of the loop of getNBestNodesForKey: the node i of weight h becomes
\* the maximum when h > maxHash.
greater(i, h, max) == IF Gt64(h, max.hash) THEN [idx |-> i, hash |-> h] ELSE max

RECURSIVE MaxScan(_, _, _, _)
\* The loop over r.nodeHashes[1:] of getNBestNodesForKey from index i, max
\* being maxIdx and maxHash so far: the index of the first greatest weight.
MaxScan(hashes, keyHash, i, max) ==
    IF i >= Len(hashes) THEN max.idx
    ELSE MaxScan(hashes, keyHash, i + 1, greater(i, Mix(Xor64(keyHash, At(hashes, i))), max))

RECURSIVE WrapNoReset(_, _, _)
\* The last loop without its reset to 0: the indices run past the last node.
WrapNoReset(maxIdx, count, n) ==
    IF count = 0 THEN <<>>
    ELSE <<maxIdx>> \o WrapNoReset(maxIdx + 1, count - 1, n)

RECURSIVE Wrap(_, _, _)
\* The last loop of getNBestNodesForKey: count indices from maxIdx, back to 0
\* once len(r.nodes) is reached.
Wrap(maxIdx, count, n) ==
    IF count = 0 THEN <<>>
    ELSE <<maxIdx>> \o Wrap(IF maxIdx + 1 >= n THEN 0 ELSE maxIdx + 1, count - 1, n)

\* getNBestNodesForKey(key, replicasCount): the indices, or a panic (index out
\* of range on r.nodeHashes[0]).
getNBestNodesForKey(r, key, replicasCount) ==
    LET n == LenNodes(r)
    IN  IF n = 1 THEN [panic |-> FALSE, val |-> <<0>>]
        ELSE IF replicasCount >= n THEN [panic |-> FALSE, val |-> [i \in 1..n |-> i - 1]]
        ELSE IF Len(r.nodeHashes) = 0 THEN [panic |-> TRUE, val |-> <<>>]
        ELSE LET rc == IF replicasCount < 1 THEN 1 ELSE replicasCount
                 keyHash == Hasher(r.hasher, key)
                 first == Mix(Xor64(keyHash, At(r.nodeHashes, 0)))
                 maxIdx == MaxScan(r.nodeHashes, keyHash, 1, [idx |-> 0, hash |-> first])
             IN  [panic |-> FALSE, val |-> Wrap(maxIdx, rc, n)]

\* r.nodeNames[nodeIdx] of Get for the indices best, or a panic (index out of
\* range).
nameAt(r, best) ==
    IF best.panic \/ best.val[1] >= Len(r.nodeNames)
    THEN [panic |-> TRUE, val |-> ""]
    ELSE [panic |-> FALSE, val |-> At(r.nodeNames, best.val[1])]

\* Get(key): the name, or a panic.
Get(r, key) ==
    IF LenNodes(r) = 0 THEN [panic |-> FALSE, val |-> ""]
    ELSE nameAt(r, getNBestNodesForKey(r, key, 1))

\* The loop of GetN over the indices best: the set of names, or a panic
\* (index out of range).
namesAt(r, best) ==
    IF best.panic \/ \E j \in 1..Len(best.val) : best.val[j] >= Len(r.nodeNames)
    THEN [panic |-> TRUE, val |-> {}]
    ELSE [panic |-> FALSE, val |-> {At(r.nodeNames, best.val[j]) : j \in 1..Len(best.val)}]

\* GetN(key, replicasCount): the set of names, or a panic.
GetN(r, key, replicasCount) ==
    IF LenNodes(r) = 0 THEN [panic |-> FALSE, val |-> {}]
    ELSE namesAt(r, getNBestNodesForKey(r, key, replicasCount))

\* s[:n]
Prefix(s, n) == SubSeq(s, 1, n)

\* delete(m, key)
MapDelete(m, key) == [k \in (DOMAIN m) \ {key} |-> m[k]]

\* Remove(node): the table it leaves and whether it panicked.  A missing key of
\* r.nodes reads as index 0; r.nodeNames[nodeIdx] is read again after the
\* slice was cut to lastIdx elements.
Remove(r, node) ==
    IF LenNodes(r) = 0 THEN [panic |-> FALSE, r |-> r]
    ELSE LET nodeIdx == IF node \in DOMAIN r.nodes THEN r.nodes[node] ELSE 0
             lastIdx == Len(r.nodeNames) - 1
         IN  IF lastIdx < 0 \/ nodeIdx > lastIdx
             THEN [panic |-> TRUE, r |-> r]
             ELSE LET names == Prefix([r.nodeNames EXCEPT ![nodeIdx + 1] = At(r.nodeNames, lastIdx)], lastIdx)
                      hashes == Prefix([r.nodeHashes EXCEPT ![nodeIdx + 1] = At(r.nodeHashes, lastIdx)], lastIdx)
                      deleted == MapDelete(r.nodes, node)
                      cut == [r EXCEPT !.nodeNames = names, !.nodeHashes = hashes, !.nodes = deleted]
                  IN  IF nodeIdx >= Len(names)
                      THEN [panic |-> TRUE, r |-> cut]
                      ELSE [panic |-> FALSE,
                            r |-> [cut EXCEPT !.nodes = (At(names, nodeIdx) :> nodeIdx) @@ deleted]]

(***************************************************************************)
(* The rendezvous table as a state machine                                 *)
(***************************************************************************)

\* Bounds of the rendezvous specifications.
NumNodeNames == 3
MaxSeedLen == 3
MaxAddArgs == 1
NumKeys == 2
MaxReplicas == 3

NodePool == <<"node0", "node1", "default", "node2", "node3">>
KeyPool == <<"hello", "world", "key", "a">>

NodeNamePool == {NodePool[i] : i \in 1..NumNodeNames}
Keys == {KeyPool[i] : i \in 1..NumKeys}
ReplicaArgs == (0 - 1)..MaxReplicas

RECURSIVE SeqsUpTo(_, _)
\* The sequences over S of length at most n.
SeqsUpTo(S, n) ==
    IF n = 0 THEN {<<>>}
    ELSE LET shorter == SeqsUpTo(S, n - 1)
         IN  shorter \cup {Append(q, x) : q \in {t \in shorter : Len(t) = n - 1}, x \in S}

SeedLists == SeqsUpTo(NodeNamePool, MaxSeedLen)
\* The lists New is given for a second table: the list of the first table, its
\* prefixes (Add brings the rest), and that list in another order.
TwinListsOf(list) == {Prefix(list, n) : n \in 0..Len(list)} \cup {Reverse(list)}
AddLists == SeqsUpTo(NodeNamePool, MaxAddArgs) \ {<<>>}

\* The table the variables hold.
R == [hasher |-> hasher, nodes |-> nodes, nodeHashes |-> nodeHashes, nodeNames |-> nodeNames]

SetTable(r) ==
    /\ hasher' = r.hasher
    /\ nodes' = r.nodes
    /\ nodeHashes' = r.nodeHashes
    /\ nodeNames' = r.nodeNames

\* The second table of TestSameDistribution: the hasher and the names it was
\* built from (the arguments of New, then those of every Add), how many of the
\* names came by Add, what New returned, and the arguments of the New call
\* that built the first table.
NoTwin == [built |-> FALSE, args |-> <<"", <<>>>>, added |-> 0, firstArgs |-> <<"", <<>>>>,
           err |-> "", r |-> NilTable]

NoCall == [op |-> "", names |-> <<>>, key |-> "", replicas |-> 0,
           panic |-> FALSE, name |-> "", set |-> {}, name2 |-> "", set2 |-> {}, pre |-> NilTable]

\* No Partitioner yet.
NoPartitioner == [made |-> FALSE]

\* No job yet.
NoJob == [made |-> FALSE]

\* No Get or GetN in flight.
NoLookup == [op |-> ""]

\* No Config yet.
NoConfig == [made |-> FALSE, err |-> "", replicasCount |-> 0, splitPoint |-> <<>>, thisShardID |-> 0 - 1,
             workDir |-> ""]

\* No table yet: hasher "" stands for the Rendezvous that New has not returned.
InitHrw ==
    /\ hasher = ""
    /\ nodes = <<>>
    /\ nodeHashes = <<>>
    /\ nodeNames = <<>>
    /\ newErr = ""
    /\ panicked = FALSE
    /\ twin = NoTwin
    /\ last = NoCall
    /\ cfg = NoConfig
    /\ input = <<>>
    /\ shards = <<>>
    /\ part = NoPartitioner
    /\ job = NoJob
    /\ lookup = NoLookup

\* r, err := New(h, list...)
DoNew(h, list) ==
    /\ hasher = ""
    /\ newErr = ""
    /\ LET made == New(h, list)
       IN  /\ newErr' = made.err
           /\ SetTable(made.r)
    /\ last' = [NoCall EXCEPT !.op = "New", !.key = h, !.names = list]
    /\ UNCHANGED <<panicked, twin, cfg, input, shards, part, job, lookup>>

\* A call can be made on a table New returned, in a process that has not died.
Callable == newErr = "" /\ hasher # "" /\ ~panicked

\* r.Add(list...)
DoAdd(list) ==
    /\ Callable
    /\ SetTable(Add(R, list))
    /\ last' = [NoCall EXCEPT !.op = "Add", !.names = list, !.pre = R]
    /\ UNCHANGED <<newErr, panicked, twin, cfg, input, shards, part, job, lookup>>

\* r.Remove(node)
DoRemove(node) ==
    /\ Callable
    /\ LET res == Remove(R, node)
       IN  /\ SetTable(res.r)
           /\ panicked' = res.panic
           /\ last' = [NoCall EXCEPT !.op = "Remove", !.names = <<node>>, !.panic = res.panic, !.pre = R]
    /\ UNCHANGED <<newErr, twin, cfg, input, shards, part, job, lookup>>

\* Get(key) returned res.val, or panicked.
GetReturns(key, res) ==
    /\ panicked' = res.panic
    /\ last' = [NoCall EXCEPT !.op = "Get", !.key = key, !.panic = res.panic, !.name = res.val]

\* r.Get(key)
DoGet(key) ==
    /\ Callable
    /\ GetReturns(key, Get(R, key))
    /\ UNCHANGED <<hasher, nodes, nodeHashes, nodeNames, newErr, twin, cfg, input, shards, part, job, lookup>>

\* GetN(key, replicasCount) returned res.val, or panicked.
GetNReturns(key, replicasCount, res) ==
    /\ panicked' = res.panic
    /\ last' = [NoCall EXCEPT !.op = "GetN", !.key = key, !.replicas = replicasCount,
                              !.panic = res.panic, !.set = res.val]

\* r.GetN(key, replicasCount)
DoGetN(key, replicasCount) ==
    /\ Callable
    /\ GetNReturns(key, replicasCount, GetN(R, key, replicasCount))
    /\ UNCHANGED <<hasher, nodes, nodeHashes, nodeNames, newErr, twin, cfg, input, shards, part, job, lookup>>

\* r2, err := New(h, list...), right after the first table was built.
DoNewTwin(h, list) ==
    /\ Callable
    /\ last.op = "New"
    /\ ~twin.built
    /\ LET made == New(h, list)
       IN  twin' = [built |-> TRUE, args |-> <<h, list>>, added |-> 0,
                    firstArgs |-> <<last.key, last.names>>, err |-> made.err, r |-> made.r]
    /\ UNCHANGED <<hasher, nodes, nodeHashes, nodeNames, newErr, panicked, last, cfg, input, shards, part, job, lookup>>

\* r2.Add(list...): the second table takes its further names by Add.
DoAddTwin(list) ==
    /\ Callable
    /\ twin.built /\ twin.err = ""
    /\ Len(twin.args[2]) + Len(list) <= MaxSeedLen
    /\ twin' = [twin EXCEPT !.args = <<twin.args[1], twin.args[2] \o list>>,
                            !.added = @ + Len(list),
                            !.r = Add(twin.r, list)]
    /\ last' = [NoCall EXCEPT !.op = "AddTwin", !.names = list, !.pre = twin.r]
    /\ UNCHANGED <<hasher, nodes, nodeHashes, nodeNames, newErr, panicked, cfg, input, shards, part, job, lookup>>

\* The two Get calls returned res.val and res2.val, or one panicked.
GetBothReturn(key, res, res2) ==
    /\ panicked' = (res.panic \/ res2.panic)
    /\ last' = [NoCall EXCEPT !.op = "GetBoth", !.key = key, !.panic = (res.panic \/ res2.panic),
                              !.name = res.val, !.name2 = res2.val]

\* n1 := r1.Get(key); n2 := r2.Get(key)
DoGetBoth(key) ==
    /\ Callable
    /\ twin.built /\ twin.err = ""
    /\ GetBothReturn(key, Get(R, key), Get(twin.r, key))
    /\ UNCHANGED <<hasher, nodes, nodeHashes, nodeNames, newErr, twin, cfg, input, shards, part, job, lookup>>

\* The two GetN calls returned res.val and res2.val, or one panicked.
GetNBothReturn(key, replicasCount, res, res2) ==
    /\ panicked' = (res.panic \/ res2.panic)
    /\ last' = [NoCall EXCEPT !.op = "GetNBoth", !.key = key, !.replicas = replicasCount,
                              !.panic = (res.panic \/ res2.panic),
                              !.set = res.val, !.set2 = res2.val]

\* s1 := r1.GetN(key, replicasCount); s2 := r2.GetN(key, replicasCount)
DoGetNBoth(key, replicasCount) ==
    /\ Callable
    /\ twin.built /\ twin.err = ""
    /\ GetNBothReturn(key, replicasCount, GetN(R, key, replicasCount), GetN(twin.r, key, replicasCount))
    /\ UNCHANGED <<hasher, nodes, nodeHashes, nodeNames, newErr, twin, cfg, input, shards, part, job, lookup>>

NextHrw ==
    \/ \E h \in Hashers, list \in SeedLists : DoNew(h, list)
    \/ \E list \in AddLists : DoAdd(list)
    \/ \E node \in NodeNamePool : DoRemove(node)
    \/ \E key \in Keys : DoGet(key)
    \/ \E key \in Keys, rc \in ReplicaArgs : DoGetN(key, rc)

vars == <<hasher, nodes, nodeHashes, nodeNames, newErr, panicked, twin, last, cfg, input, shards, part, job, lookup>>

\* New, Add, Remove, Get and GetN on one table.
SpecHrw == InitHrw /\ [][NextHrw]_vars

NextSame ==
    \/ \E h \in Hashers, list \in SeedLists : DoNew(h, list)
    \/ \E h \in Hashers, list \in TwinListsOf(last.names) : DoNewTwin(h, list)
    \/ \E list \in AddLists : DoAddTwin(list)
    \/ \E key \in Keys : DoGetBoth(key)
    \/ \E key \in Keys, rc \in ReplicaArgs : DoGetNBoth(key, rc)

\* Two tables, the first built by one New, the second by New or by New and
\* Add, looked up side by side (TestSameDistribution).
SpecSame == InitHrw /\ [][NextSame]_vars

\* A goroutine enters Get(key) (op "Get") or GetN(key, replicasCount) (op
\* "GetN"); neither takes r.mu.  Each step below makes one read of the table,
\* so that the writes of Add and Remove in another goroutine fall between any
\* two of them.  The step reads len(r.nodes) and returns on an empty table.
\* overlap tells that an Add or a Remove was under way during the lookup.
LookupStart(op, key, replicasCount) ==
    /\ Callable
    /\ lookup.op = ""
    /\ lookup' = [op |-> op, key |-> key,
                  replicas |-> IF op = "Get" THEN 1 ELSE replicasCount,
                  pc |-> IF LenNodes(R) = 0 THEN "done" ELSE "212",
                  idx |-> <<>>, i |-> 0, hs |-> <<>>,
                  max |-> [idx |-> 0, hash |-> U64(0)],
                  panic |-> FALSE, val |-> {},
                  overlap |-> last.op \in {"Add", "Remove"} /\ last.pc # "done"]
    /\ UNCHANGED <<hasher, nodes, nodeHashes, nodeNames, newErr, panicked, twin, last, cfg, input, shards, part, job>>

\* The lookup goes on as l, or panics with an index out of range.
lookupSteps(l, panics) ==
    /\ lookup' = IF panics THEN [lookup EXCEPT !.pc = "done", !.panic = TRUE] ELSE l
    /\ panicked' = panics
    /\ UNCHANGED <<hasher, nodes, nodeHashes, nodeNames, newErr, twin, last, cfg, input, shards, part, job>>

\* A step of the lookup at pc.
InLookup(pc) == lookup.op # "" /\ lookup.pc = pc /\ ~panicked

\* getNBestNodesForKey: if len(r.nodes) == 1 { return []int{0} }
LookupOne ==
    /\ InLookup("212")
    /\ lookupSteps(IF LenNodes(R) = 1
                   THEN [lookup EXCEPT !.pc = "names", !.idx = <<0>>, !.i = 0]
                   ELSE [lookup EXCEPT !.pc = "216"], FALSE)

\* if replicasCount >= len(r.nodes)
LookupAll ==
    /\ InLookup("216")
    /\ lookupSteps([lookup EXCEPT !.pc = IF lookup.replicas >= LenNodes(R) THEN "217" ELSE "230"],
                   FALSE)

\* nodeIndecies = make([]int, len(r.nodes))
LookupMake ==
    /\ InLookup("217")
    /\ lookupSteps([lookup EXCEPT !.pc = "218", !.idx = [k \in 1..LenNodes(R) |-> 0], !.i = 0],
                   FALSE)

\* for i := 0; i < len(r.nodes); i++ { nodeIndecies[i] = i }, one round: the
\* condition reads len(r.nodes) again.
LookupFill ==
    /\ InLookup("218")
    /\ IF lookup.i < LenNodes(R)
       THEN lookupSteps([lookup EXCEPT !.idx = [k \in DOMAIN @ |-> IF k = lookup.i + 1 THEN lookup.i ELSE @[k]],
                                       !.i = @ + 1],
                        lookup.i >= Len(lookup.idx))
       ELSE lookupSteps([lookup EXCEPT !.pc = "names", !.i = 0], FALSE)

\* maxHash = xorshiftMult64(keyHash ^ r.nodeHashes[0])
LookupFirst ==
    /\ InLookup("230")
    /\ IF Len(nodeHashes) = 0 THEN lookupSteps(lookup, TRUE)
       ELSE lookupSteps([lookup EXCEPT !.pc = "232",
                                       !.max = [idx |-> 0,
                                                hash |-> Mix(Xor64(Hasher(hasher, lookup.key),
                                                                   At(nodeHashes, 0)))]],
                        FALSE)

\* range r.nodeHashes[1:]: the slice is taken once, with the length and the
\* array r.nodeHashes has at this moment.
LookupRange ==
    /\ InLookup("232")
    /\ lookupSteps([lookup EXCEPT !.pc = "233", !.hs = nodeHashes, !.i = 1],
                   Len(nodeHashes) < 1)

\* The element i of the array the range was taken on.  Remove writes into that
\* array and cuts r.nodeHashes without clearing the last element; the first
\* append of Add to the slices New made, which are full, moves r.nodeHashes to
\* a new array and leaves the elements of the old one as they are.
ranged(l, i) == IF i < Len(nodeHashes) THEN At(nodeHashes, i) ELSE At(l.hs, i)

\* One round of the loop over r.nodeHashes[1:], or its end and
\* nodeIndecies = make([]int, replicasCount).
LookupScan ==
    /\ InLookup("233")
    /\ lookupSteps(IF lookup.i >= Len(lookup.hs)
                   THEN [lookup EXCEPT !.pc = "240", !.idx = <<>>, !.i = lookup.max.idx]
                   ELSE [lookup EXCEPT !.i = @ + 1,
                                       !.max = greater(lookup.i,
                                                       Mix(Xor64(Hasher(hasher, lookup.key),
                                                                 ranged(lookup, lookup.i))),
                                                       @)],
                   FALSE)

\* One round of the last loop: nodeIndecies[i] = maxIdx; maxIdx++, back to 0
\* once it reaches len(r.nodes), which is read again.  i holds maxIdx.
LookupWrap ==
    /\ InLookup("240")
    /\ LET rc == IF lookup.replicas < 1 THEN 1 ELSE lookup.replicas
           idx == Append(lookup.idx, lookup.i)
       IN  lookupSteps([lookup EXCEPT !.idx = idx,
                                      !.i = IF Len(idx) >= rc THEN 0
                                            ELSE IF lookup.i + 1 >= LenNodes(R) THEN 0
                                            ELSE lookup.i + 1,
                                      !.pc = IF Len(idx) >= rc THEN "names" ELSE "240"],
                       FALSE)

\* Get: r.nodeNames[nodeIdx] for the first index, a panic when there is none.
\* GetN: one round of the loop res[r.nodeNames[idx]] = struct{}{}, or its end.
\* i counts the indices read.
LookupName ==
    /\ InLookup("names")
    /\ IF lookup.i >= Len(lookup.idx)
       THEN lookupSteps([lookup EXCEPT !.pc = "done"], lookup.op = "Get")
       ELSE LET at == lookup.idx[lookup.i + 1]
            IN  IF at >= Len(nodeNames) THEN lookupSteps(lookup, TRUE)
                ELSE lookupSteps([lookup EXCEPT !.val = @ \cup {At(nodeNames, at)},
                                                !.i = @ + 1,
                                                !.pc = IF lookup.op = "Get" \/ lookup.i + 1 >= Len(lookup.idx)
                                                       THEN "done" ELSE "names"],
                                 FALSE)

\* The other goroutine is in Add or Remove at pc.
InMutation(op, pc) == last.op = op /\ last.pc = pc /\ ~panicked

\* A lookup is under way.
Looking == lookup.op # "" /\ lookup.pc # "done"

\* The call of Add or Remove that begins: pre is the table before it.
mutation(op, list, pc) ==
    [NoCall EXCEPT !.op = op, !.names = list, !.pre = R] @@
    [pc |-> pc, k |-> 1, nodeIdx |-> 0, lastIdx |-> 0]

\* addNode of the name k of the list, up to r.nodes[node] = len(r.nodeNames);
\* a name the table holds is passed over.  m is the call so far.
addNodeIndex(m) ==
    IF m.k > Len(m.names)
    THEN /\ last' = [m EXCEPT !.pc = "done"]
         /\ UNCHANGED nodes
    ELSE IF m.names[m.k] \in DOMAIN nodes
    THEN /\ last' = [m EXCEPT !.k = @ + 1, !.pc = IF m.k + 1 > Len(m.names) THEN "done" ELSE "176"]
         /\ UNCHANGED nodes
    ELSE /\ last' = [m EXCEPT !.pc = "177"]
         /\ nodes' = (m.names[m.k] :> Len(nodeNames)) @@ nodes

\* r.Add(list...) in another goroutine: it takes r.mu, which no lookup takes,
\* and enters its loop over the names.
AddStart(list) ==
    /\ Callable
    /\ last.op = "New"
    /\ last' = mutation("Add", list, "176")
    /\ lookup' = IF Looking THEN [lookup EXCEPT !.overlap = TRUE] ELSE lookup
    /\ UNCHANGED <<hasher, nodes, nodeHashes, nodeNames, newErr, panicked, twin, cfg, input, shards, part, job>>

\* addNode of the name in turn, up to r.nodes[node] = len(r.nodeNames)
AddIndex ==
    /\ InMutation("Add", "176")
    /\ addNodeIndex(last)
    /\ UNCHANGED <<hasher, nodeHashes, nodeNames, newErr, panicked, twin, cfg, input, shards, part, job, lookup>>

\* r.nodeNames = append(r.nodeNames, node)
AddName ==
    /\ InMutation("Add", "177")
    /\ nodeNames' = Append(nodeNames, last.names[last.k])
    /\ last' = [last EXCEPT !.pc = "178"]
    /\ UNCHANGED <<hasher, nodes, nodeHashes, newErr, panicked, twin, cfg, input, shards, part, job, lookup>>

\* r.nodeHashes = append(r.nodeHashes, r.hasher(...)), and the next name
AddHash ==
    /\ InMutation("Add", "178")
    /\ nodeHashes' = Append(nodeHashes, Hasher(hasher, last.names[last.k]))
    /\ last' = [last EXCEPT !.k = @ + 1, !.pc = IF last.k + 1 > Len(last.names) THEN "done" ELSE "176"]
    /\ UNCHANGED <<hasher, nodes, nodeNames, newErr, panicked, twin, cfg, input, shards, part, job, lookup>>

\* r.Remove(node) in another goroutine: len(r.nodes) read before r.mu is taken,
\* nodeIdx := r.nodes[node], lastIdx := len(r.nodeNames) - 1 and
\* r.nodeNames[nodeIdx] = r.nodeNames[lastIdx].
RemoveStart(node) ==
    /\ Callable
    /\ last.op = "New"
    /\ LET m == mutation("Remove", <<node>>, "265")
           nodeIdx == IF node \in DOMAIN nodes THEN nodes[node] ELSE 0
           lastIdx == Len(nodeNames) - 1
       IN  IF LenNodes(R) = 0
           THEN /\ last' = [m EXCEPT !.pc = "done"]
                /\ UNCHANGED <<nodeNames, panicked>>
           ELSE IF lastIdx < 0 \/ nodeIdx > lastIdx
           THEN /\ last' = [m EXCEPT !.pc = "done", !.panic = TRUE]
                /\ panicked' = TRUE
                /\ UNCHANGED nodeNames
           ELSE /\ last' = [m EXCEPT !.nodeIdx = nodeIdx, !.lastIdx = lastIdx]
                /\ nodeNames' = [nodeNames EXCEPT ![nodeIdx + 1] = At(nodeNames, lastIdx)]
                /\ UNCHANGED panicked
    /\ lookup' = IF Looking THEN [lookup EXCEPT !.overlap = TRUE] ELSE lookup
    /\ UNCHANGED <<hasher, nodes, nodeHashes, newErr, twin, cfg, input, shards, part, job>>

\* r.nodeNames = r.nodeNames[:lastIdx]
RemoveCutNames ==
    /\ InMutation("Remove", "265")
    /\ nodeNames' = Prefix(nodeNames, last.lastIdx)
    /\ last' = [last EXCEPT !.pc = "267"]
    /\ UNCHANGED <<hasher, nodes, nodeHashes, newErr, panicked, twin, cfg, input, shards, part, job, lookup>>

\* r.nodeHashes[nodeIdx] = r.nodeHashes[lastIdx]
RemoveHash ==
    /\ InMutation("Remove", "267")
    /\ nodeHashes' = [nodeHashes EXCEPT ![last.nodeIdx + 1] = At(nodeHashes, last.lastIdx)]
    /\ last' = [last EXCEPT !.pc = "268"]
    /\ UNCHANGED <<hasher, nodes, nodeNames, newErr, panicked, twin, cfg, input, shards, part, job, lookup>>

\* r.nodeHashes = r.nodeHashes[:lastIdx]
RemoveCutHashes ==
    /\ InMutation("Remove", "268")
    /\ nodeHashes' = Prefix(nodeHashes, last.lastIdx)
    /\ last' = [last EXCEPT !.pc = "271"]
    /\ UNCHANGED <<hasher, nodes, nodeNames, newErr, panicked, twin, cfg, input, shards, part, job, lookup>>

\* delete(r.nodes, node)
RemoveDelete ==
    /\ InMutation("Remove", "271")
    /\ nodes' = MapDelete(nodes, last.names[1])
    /\ last' = [last EXCEPT !.pc = "272"]
    /\ UNCHANGED <<hasher, nodeHashes, nodeNames, newErr, panicked, twin, cfg, input, shards, part, job, lookup>>

\* moved := r.nodeNames[nodeIdx]; r.nodes[moved] = nodeIdx
RemoveMoved ==
    /\ InMutation("Remove", "272")
    /\ IF last.nodeIdx >= Len(nodeNames)
       THEN /\ last' = [last EXCEPT !.pc = "done", !.panic = TRUE]
            /\ panicked' = TRUE
            /\ UNCHANGED nodes
       ELSE /\ last' = [last EXCEPT !.pc = "done"]
            /\ nodes' = (At(nodeNames, last.nodeIdx) :> last.nodeIdx) @@ nodes
            /\ UNCHANGED panicked
    /\ UNCHANGED <<hasher, nodeHashes, nodeNames, newErr, twin, cfg, input, shards, part, job, lookup>>

NextRace ==
    \/ \E h \in Hashers, list \in SeedLists : DoNew(h, list)
    \/ \E key \in Keys : LookupStart("Get", key, 1)
    \/ \E key \in Keys, rc \in ReplicaArgs : LookupStart("GetN", key, rc)
    \/ LookupOne
    \/ LookupAll
    \/ LookupMake
    \/ LookupFill
    \/ LookupFirst
    \/ LookupRange
    \/ LookupScan
    \/ LookupWrap
    \/ LookupName
    \/ \E list \in AddLists : AddStart(list)
    \/ AddIndex
    \/ AddName
    \/ AddHash
    \/ \E node \in NodeNamePool : RemoveStart(node)
    \/ RemoveCutNames
    \/ RemoveHash
    \/ RemoveCutHashes
    \/ RemoveDelete
    \/ RemoveMoved

\* One table New made, a goroutine that calls Get or GetN once and another
\* that calls Add or Remove once, each read of the lookup and each write of
\* the other call a step of its own.
SpecRace == InitHrw /\ [][NextRace]_vars

(***************************************************************************)
(* Properties of the rendezvous table                                      *)
(***************************************************************************)

\* The invariant the specification states for a table: the three collections
\* have one length, the names are distinct, nodes[name] = i exactly when
\* nodeNames[i] = name, and nodeHashes[i] is the hash of nodeNames[i].
WellFormed(r) ==
    /\ Len(r.nodeNames) = Len(r.nodeHashes)
    /\ Cardinality(DOMAIN r.nodes) = Len(r.nodeNames)
    /\ \A i, j \in 1..Len(r.nodeNames) : r.nodeNames[i] = r.nodeNames[j] => i = j
    /\ \A i \in 1..Len(r.nodeNames) :
          /\ r.nodeNames[i] \in DOMAIN r.nodes
          /\ r.nodes[r.nodeNames[i]] = i - 1
    /\ \A name \in DOMAIN r.nodes :
          /\ r.nodes[name] \in 0..(Len(r.nodeNames) - 1)
          /\ At(r.nodeNames, r.nodes[name]) = name
    /\ \A i \in 1..Len(r.nodeHashes) : r.nodeHashes[i] = Hasher(r.hasher, r.nodeNames[i])

\* w_i = mix(hash(key) XOR nodeHashes[i]) of the specification.
Weight(r, key, i) == Mix(Xor64(Hasher(r.hasher, key), At(r.nodeHashes, i)))

\* argmax w_i, ties broken by the lowest index.
Primary(r, key) ==
    CHOOSE p \in 0..(Len(r.nodeHashes) - 1) :
        /\ \A i \in 0..(Len(r.nodeHashes) - 1) : ~Gt64(Weight(r, key, i), Weight(r, key, p))
        /\ \A i \in 0..(p - 1) : Gt64(Weight(r, key, p), Weight(r, key, i))

\* The names at indices p, p+1, ..., p+count-1 modulo the node count.
Successors(r, p, count) ==
    {At(r.nodeNames, (p + j) % Len(r.nodeNames)) : j \in 0..(count - 1)}

\* C4: on a table of N >= 2 nodes and for 1 <= r < N, GetN(key, r) is the names
\* at indices p .. p+r-1 modulo N, p being the lowest index of greatest weight
\* mix(hash(key) XOR nodeHashes[i]); Get(key) is the name at p; Get on an empty
\* table is "".
C4_SelectionRule ==
    /\ (last.op = "GetN" /\ WellFormed(R) /\ Len(nodeNames) >= 2
            /\ last.replicas >= 1 /\ last.replicas < Len(nodeNames))
        => /\ ~last.panic
           /\ last.set = Successors(R, Primary(R, last.key), last.replicas)
    /\ (last.op = "Get" /\ WellFormed(R) /\ Len(nodeNames) >= 1)
        => /\ ~last.panic
           /\ last.name = At(nodeNames, Primary(R, last.key))
    /\ (last.op = "Get" /\ WellFormed(R) /\ Len(nodeNames) = 0)
        => /\ ~last.panic
           /\ last.name = ""

\* A GetN of two replicas on three nodes whose primary is the last index, so
\* that the second replica is the node at index 0.
C4_Witness ==
    /\ last.op = "GetN" /\ WellFormed(R) /\ ~last.panic
    /\ hasher = "xxhash"
    /\ Len(nodeNames) = 3 /\ last.replicas = 2
    /\ Primary(R, last.key) = 2
    /\ last.set = {nodeNames[3], nodeNames[1]}

\* C5: GetN returns min(max(replicas, 1), N) distinct names of the table, for
\* every replicas value and every node count N >= 0; the one node of a
\* one-node table; all the nodes when replicas >= N.
C5_Cardinality ==
    (last.op = "GetN" /\ WellFormed(R))
        => /\ ~last.panic
           /\ last.set \subseteq Range(nodeNames)
           /\ Cardinality(last.set) = Min(Max(last.replicas, 1), Len(nodeNames))
           /\ (Len(nodeNames) = 1 => last.set = {nodeNames[1]})
           /\ (last.replicas >= Len(nodeNames) => last.set = Range(nodeNames))

\* A GetN that asks for two of three nodes and gets two.
C5_Witness ==
    /\ last.op = "GetN" /\ WellFormed(R) /\ ~last.panic
    /\ Len(nodeNames) = 3 /\ last.replicas = 2
    /\ Cardinality(last.set) = 2

\* C6: two tables built independently from the same hasher and the same
\* names in the same order, the first by one call of New and the second by New
\* alone or by New on a prefix and Add of the rest, answer Get and GetN alike,
\* for every key and every replicas value.
C6_Determinism ==
    (twin.built /\ twin.args = twin.firstArgs)
        => /\ twin.err = newErr
           /\ ~last.panic
           /\ (last.op = "GetBoth" => last.name = last.name2)
           /\ (last.op = "GetNBoth" => last.set = last.set2)

\* The first table was built by New from three names, the second by New and
\* Add from the same names, and both were asked for two replicas of a key.
C6_Witness ==
    /\ twin.built /\ twin.args = twin.firstArgs /\ twin.added > 0
    /\ Len(nodeNames) = 3
    /\ last.op = "GetNBoth" /\ last.replicas = 2
    /\ Cardinality(last.set) = 2 /\ last.set = last.set2

\* C7: after Add of names the table did not hold, a key whose Get differs from
\* its Get before the call maps to one of the added names.
C7_MinimalMovement ==
    (last.op = "Add" /\ WellFormed(last.pre))
        => \A k \in Keys :
              /\ ~Get(R, k).panic
              /\ Get(last.pre, k).val # Get(R, k).val
                    => Get(R, k).val \in Range(last.names) \ DOMAIN last.pre.nodes

\* A node was added to a table of two: one key moved to it, another stayed.
C7_Witness ==
    /\ last.op = "Add" /\ WellFormed(last.pre)
    /\ Len(last.pre.nodeNames) = 2 /\ Len(nodeNames) = 3
    /\ \E k \in Keys : Get(last.pre, k).val # Get(R, k).val /\ Get(R, k).val = last.names[1]
    /\ \E k \in Keys : Get(last.pre, k).val = Get(R, k).val

\* C8: after New and any sequence of Add and Remove calls, with present or
\* absent names, the table satisfies its invariant.
C8_TableInvariant == Callable => WellFormed(R)

\* C9: Remove of a name the table does not hold leaves nodeNames, nodeHashes
\* and nodes unchanged, on an empty table and on a non-empty one.
C9_RemoveMissingNoOp ==
    (last.op = "Remove" /\ WellFormed(last.pre) /\ last.names[1] \notin DOMAIN last.pre.nodes)
        => /\ ~last.panic
           /\ R = last.pre

\* C10: Remove of a name the table holds, at any index, returns normally and
\* leaves the previous names minus that one, one node fewer, the former last
\* name at the index of the removed one and every other name at its index.
C10_RemovePresent ==
    (last.op = "Remove" /\ WellFormed(last.pre) /\ last.names[1] \in DOMAIN last.pre.nodes)
        => LET idx == last.pre.nodes[last.names[1]]
               lastIdx == Len(last.pre.nodeNames) - 1
           IN  /\ ~last.panic
               /\ Range(nodeNames) = Range(last.pre.nodeNames) \ {last.names[1]}
               /\ Len(nodeNames) = lastIdx
               /\ idx < lastIdx => At(nodeNames, idx) = At(last.pre.nodeNames, lastIdx)
               /\ \A i \in 0..(lastIdx - 1) : i # idx => At(nodeNames, i) = At(last.pre.nodeNames, i)

\* C11: for every key whose Get was not n before Remove of a name n the table
\* holds, the call returns normally and the key has the same Get after it.
C11_RemoveOnlyMovesOwned ==
    (last.op = "Remove" /\ WellFormed(last.pre) /\ last.names[1] \in DOMAIN last.pre.nodes)
        => \A k \in Keys :
              Get(last.pre, k).val # last.names[1]
                 => /\ ~last.panic
                    /\ ~Get(R, k).panic
                    /\ Get(R, k).val = Get(last.pre, k).val

\* Some name occurs twice in the list.
Repeats(list) == \E i, j \in 1..Len(list) : i # j /\ list[i] = list[j]

\* C12: New fails with the duplicated-node-name error exactly when its list
\* repeats a name; otherwise NodeNames() is the list, in its order, and
\* NodesCount() its length (an empty table for an empty list).
C12_NewDuplicates ==
    last.op = "New"
        => /\ (newErr # "" <=> Repeats(last.names))
           /\ (newErr # "" => \E n \in Range(last.names) : newErr = "duplicated node name: " \o n)
           /\ (newErr = "" => /\ NodeNames(R) = last.names
                              /\ NodesCount(R) = Len(last.names)
                              /\ hasher # "")

\* New was refused for a list whose first and third names are the same, the
\* second being another.
C12_Witness ==
    /\ last.op = "New"
    /\ Len(last.names) = 3
    /\ last.names[1] = last.names[3] /\ last.names[1] # last.names[2]
    /\ newErr = "duplicated node name: " \o last.names[1]
    /\ hasher = ""

(***************************************************************************)
(* yaml.Node: the tree yaml.Unmarshal hands to shard.UnmarshalYAML         *)
(***************************************************************************)

\* A document is a sequence of nodes; a node is named by its index, the root
\* is node 1, Content lists the children, Alias is the node an alias refers to
\* (0 for none), Value of an alias node is the label of its anchor.
Scalar(v) == [Kind |-> "ScalarNode", Value |-> v, Anchor |-> "", Content |-> <<>>, Alias |-> 0]
Sequence(c) == [Kind |-> "SequenceNode", Value |-> "", Anchor |-> "", Content |-> c, Alias |-> 0]
Mapping(c) == [Kind |-> "MappingNode", Value |-> "", Anchor |-> "", Content |-> c, Alias |-> 0]
AliasOf(label, target) == [Kind |-> "AliasNode", Value |-> label, Anchor |-> "", Content |-> <<>>, Alias |-> target]
Anchored(label, n) == [n EXCEPT !.Anchor = label]

\* items: [foo, bar, baz]
DocPlain ==
    << Mapping(<<2, 3>>), Scalar("items"), Sequence(<<4, 5, 6>>),
       Scalar("foo"), Scalar("bar"), Scalar("baz") >>

\* groups:
\*   - rules: [&a {x: foo}, &b bar, baz]
\*   - rules: [*a, *b, qux]
DocGroups ==
    << Mapping(<<2, 3>>), Scalar("groups"), Sequence(<<4, 12>>),
       Mapping(<<5, 6>>), Scalar("rules"), Sequence(<<7, 10, 11>>),
       Anchored("a", Mapping(<<8, 9>>)), Scalar("x"), Scalar("foo"),
       Anchored("b", Scalar("bar")), Scalar("baz"),
       Mapping(<<13, 14>>), Scalar("rules"), Sequence(<<15, 16, 17>>),
       AliasOf("a", 7), AliasOf("b", 10), Scalar("qux") >>

\* items: {k1: &a foo, k2: bar, k3: *a}
\* other: *a
DocMapping ==
    << Mapping(<<2, 3, 10, 11>>), Scalar("items"), Mapping(<<4, 5, 6, 7, 8, 9>>),
       Scalar("k1"), Anchored("a", Scalar("foo")), Scalar("k2"), Scalar("bar"),
       Scalar("k3"), AliasOf("a", 5),
       Scalar("other"), AliasOf("a", 5) >>

\* defaults: &d {x: foo}
\* items: [*d, bar]
DocDefaults ==
    << Mapping(<<2, 3, 6, 7>>), Scalar("defaults"), Anchored("d", Mapping(<<4, 5>>)),
       Scalar("x"), Scalar("foo"),
       Scalar("items"), Sequence(<<8, 9>>), AliasOf("d", 3), Scalar("bar") >>

\* items: [&a foo, {y: *a}, bar]
DocNested ==
    << Mapping(<<2, 3>>), Scalar("items"), Sequence(<<4, 5, 8>>),
       Anchored("a", Scalar("foo")), Mapping(<<6, 7>>), Scalar("y"), AliasOf("a", 4),
       Scalar("bar") >>

\* items: [&a foo, *a, &a bar, *a]
DocReuse ==
    << Mapping(<<2, 3>>), Scalar("items"), Sequence(<<4, 5, 6, 7>>),
       Anchored("a", Scalar("foo")), AliasOf("a", 4),
       Anchored("a", Scalar("bar")), AliasOf("a", 6) >>

\* groups:
\*   - rules: &common [foo, bar, baz]
\*   - rules: *common
DocShared ==
    << Mapping(<<2, 3>>), Scalar("groups"), Sequence(<<4, 10>>),
       Mapping(<<5, 6>>), Scalar("rules"), Anchored("common", Sequence(<<7, 8, 9>>)),
       Scalar("foo"), Scalar("bar"), Scalar("baz"),
       Mapping(<<11, 12>>), Scalar("rules"), AliasOf("common", 6) >>

\* groups:
\*   - rules: &r [foo, bar]
\*   - rules: [*r, baz]
DocContainerAlias ==
    << Mapping(<<2, 3>>), Scalar("groups"), Sequence(<<4, 9>>),
       Mapping(<<5, 6>>), Scalar("rules"), Anchored("r", Sequence(<<7, 8>>)),
       Scalar("foo"), Scalar("bar"),
       Mapping(<<10, 11>>), Scalar("rules"), Sequence(<<12, 13>>),
       AliasOf("r", 6), Scalar("baz") >>

\* items: foo
DocScalar == << Mapping(<<2, 3>>), Scalar("items"), Scalar("foo") >>

\* groups:
\*   - rules: [&c [foo, bar], baz]
\*   - rules: *c
DocAliasToChild ==
    << Mapping(<<2, 3>>), Scalar("groups"), Sequence(<<4, 11>>),
       Mapping(<<5, 6>>), Scalar("rules"), Sequence(<<7, 10>>),
       Anchored("c", Sequence(<<8, 9>>)), Scalar("foo"), Scalar("bar"), Scalar("baz"),
       Mapping(<<12, 13>>), Scalar("rules"), AliasOf("c", 7) >>

\* groups.*.rules: foo
DocDottedKey == << Mapping(<<2, 3>>), Scalar("groups.*.rules"), Scalar("foo") >>

\* defaults: &d foo
\* items: *d
DocAliasScalar ==
    << Mapping(<<2, 3, 4, 5>>), Scalar("defaults"), Anchored("d", Scalar("foo")),
       Scalar("items"), AliasOf("d", 3) >>

\* groups:
\*   - rules: [foo, bar]
\*   - rules: baz
DocMixed ==
    << Mapping(<<2, 3>>), Scalar("groups"), Sequence(<<4, 9>>),
       Mapping(<<5, 6>>), Scalar("rules"), Sequence(<<7, 8>>), Scalar("foo"), Scalar("bar"),
       Mapping(<<10, 11>>), Scalar("rules"), Scalar("baz") >>

\* defaults: &d [foo, bar]
\* items: *d
DocAliasOutside ==
    << Mapping(<<2, 3, 6, 7>>), Scalar("defaults"), Anchored("d", Sequence(<<4, 5>>)),
       Scalar("foo"), Scalar("bar"),
       Scalar("items"), AliasOf("d", 3) >>

\* [foo, bar, baz]
DocSequence == << Sequence(<<2, 3, 4>>), Scalar("foo"), Scalar("bar"), Scalar("baz") >>

\* The documents the shards are run on.
Documents ==
    {DocPlain, DocGroups, DocMapping, DocDefaults, DocNested, DocReuse,
     DocShared, DocContainerAlias, DocScalar, DocAliasToChild, DocDottedKey,
     DocAliasScalar, DocMixed, DocAliasOutside, DocSequence}

\* A leaf as the encoder writes it inside a block: a scalar after its anchor,
\* or an alias.
Leaf(n) ==
    IF n.Kind = "AliasNode" THEN "*" \o n.Value
    ELSE IF n.Anchor # "" THEN "&" \o n.Anchor \o " " \o n.Value
    ELSE n.Value

RECURSIVE MarshalPairs(_, _, _)
\* The lines "key: value" of a block mapping whose values are leaves.
MarshalPairs(doc, content, i) ==
    IF i > Len(content) THEN ""
    ELSE doc[content[i]].Value \o ": " \o Leaf(doc[content[i + 1]]) \o "\n"
            \o MarshalPairs(doc, content, i + 2)

RECURSIVE MarshalItems(_, _, _)
\* The lines "- value" of a block sequence whose items are leaves.
MarshalItems(doc, content, i) ==
    IF i > Len(content) THEN ""
    ELSE "- " \o Leaf(doc[content[i]]) \o "\n" \o MarshalItems(doc, content, i + 1)

\* yaml.Marshal(item) for the items of the documents above: a leaf, or a block
\* collection of leaves, which the encoder starts with its anchor on a line of
\* its own.
Marshal(doc, item) ==
    LET n == doc[item]
        head == IF n.Anchor # "" THEN "&" \o n.Anchor \o "\n" ELSE ""
    IN  IF n.Kind = "MappingNode" THEN head \o MarshalPairs(doc, n.Content, 1)
        ELSE IF n.Kind = "SequenceNode" THEN head \o MarshalItems(doc, n.Content, 1)
        ELSE Leaf(n) \o "\n"

(***************************************************************************)
(* shard: the walk to the split point and the partition of its children    *)
(***************************************************************************)

RECURSIVE Join(_, _)
\* strings.Join(path, sep)
Join(path, sep) ==
    IF Len(path) = 0 THEN ""
    ELSE IF Len(path) = 1 THEN path[1]
    ELSE path[1] \o sep \o Join(Tail(path), sep)

\* m[key] = value on a Go map
MapSet(m, key, value) == (key :> value) @@ m

\* m[key], the zero value when the key is missing
MapGet(m, key) == IF key \in DOMAIN m THEN m[key] ELSE 0

\* A context.Context: it is done, with the error err, from entry number after
\* (counted from 0) into descendRecursively on; err "" is a context that is
\* never done.
Background == [err |-> "", after |-> 0]

\* A context whose Done channel is read at the root of the walk only.
DoneAtRoot(ctx, dives) == ctx.err # "" /\ dives >= ctx.after /\ dives = 0

\* select { case <-ctx.Done(): ... default: } at the entry number dives.
Done(ctx, dives) == ctx.err # "" /\ dives >= ctx.after

\* The error of descendRecursively on a context that is done.
Canceled(name, ctx) == name \o " canceled: " \o ctx.err

\* shard.Reset(): the shard before a walk of the document doc.  Content holds
\* node.Content of every node; hashed lists the items handed to GetN.
Reset(doc) ==
    [ctx |-> Background,
     dives |-> 0,
     Content |-> [n \in 1..Len(doc) |-> doc[n].Content],
     anchors |-> <<>>,
     visitedPaths |-> {},
     itemsCountBefore |-> 0,
     itemsCountAfter |-> 0,
     hashed |-> {},
     err |-> ""]

\* shard.markVisited(path)
markVisited(sh, path) == [sh EXCEPT !.visitedPaths = @ \cup {Join(path, ".")}]

\* whereAt comparing the depth only: every path as long as the split point is
\* at the split point, whatever its elements.
whereAtDepth(splitPoint, path) ==
    LET maxDeep == Len(splitPoint)
    IN  IF Len(path) > maxDeep THEN 1
        ELSE IF Len(path) = maxDeep THEN 0
        ELSE 0 - 1

\* shard.whereAt(path): 0 at the split point, -1 above it, 1 off it.
whereAt(splitPoint, path) ==
    LET maxDeep == Len(splitPoint)
    IN  IF Len(path) > maxDeep THEN 1
        ELSE IF \E i \in 1..Len(path) : path[i] # splitPoint[i] THEN 1
        ELSE IF Len(path) = maxDeep THEN 0
        ELSE 0 - 1

\* The alias case with "ok" for "match > 0": the item stays when the anchor
\* of its label was processed, on this shard or on another.
aliasProcessed(anchors, label) == label \in DOMAIN anchors

\* The alias case of partitionNode: the item stays when the anchor of its
\* label was processed and belongs to this shard.
aliasBelongs(anchors, label) == label \in DOMAIN anchors /\ anchors[label] > 0

\* The hashing case of partitionNode: the item stays when GetN of its bytes
\* names this shard.
hashBelongs(c, name, doc, item) ==
    name \in GetN(c.consistentHashing, Marshal(doc, item), c.replicasCount).val

NotShardable(splitPoint) ==
    "invalid split point path: node at \"" \o Join(splitPoint, ".") \o "\" is not shardable"

\* One round of the loop of partitionNode that puts the item it keeps in front
\* of newContent.
partitionItemFront(doc, st, step, oldContent, item, belongs) ==
    LET isAlias == doc[item].Kind = "AliasNode"
        anchor == doc[item].Anchor
    IN  [sh |-> [st.sh EXCEPT
                    !.anchors = IF ~isAlias /\ anchor # ""
                                THEN MapSet(@, anchor, IF belongs THEN step ELSE 0)
                                ELSE @,
                    !.hashed = IF isAlias THEN @ ELSE @ \cup {item}],
         i |-> st.i + step,
         newContent |-> IF ~belongs THEN st.newContent
                        ELSE IF step = 2 THEN <<At(oldContent, st.i), item>> \o st.newContent
                        ELSE <<item>> \o st.newContent]

\* One round of the loop of partitionNode on the item at index st.i, which
\* belongs to this shard or does not: the anchors, the items handed to GetN
\* and the content kept after it.
partitionItem(doc, st, step, oldContent, item, belongs) ==
    LET isAlias == doc[item].Kind = "AliasNode"
        anchor == doc[item].Anchor
    IN  [sh |-> [st.sh EXCEPT
                    !.anchors = IF ~isAlias /\ anchor # ""
                                THEN MapSet(@, anchor, IF belongs THEN step ELSE 0)
                                ELSE @,
                    !.hashed = IF isAlias THEN @ ELSE @ \cup {item}],
         i |-> st.i + step,
         newContent |-> IF ~belongs THEN st.newContent
                        ELSE IF step = 2 THEN st.newContent \o <<At(oldContent, st.i), item>>
                        ELSE Append(st.newContent, item)]

RECURSIVE partitionFrom(_, _, _, _, _, _)
\* The loop of partitionNode from index st.i of oldContent.
partitionFrom(c, name, doc, nodeKind, oldContent, st) ==
    LET step == IF nodeKind = "MappingNode" THEN 2 ELSE 1
        item == IF step = 2 THEN At(oldContent, st.i + 1) ELSE At(oldContent, st.i)
    IN  IF st.i >= Len(oldContent) THEN st
        ELSE partitionFrom(c, name, doc, nodeKind, oldContent,
                           partitionItem(doc, st, step, oldContent, item,
                                         IF doc[item].Kind = "AliasNode"
                                         THEN aliasBelongs(st.sh.anchors, doc[item].Value)
                                         ELSE hashBelongs(c, name, doc, item)))

\* shard.partitionNode(nodeKind, oldContent): the shard and newContent.
partitionNode(c, name, doc, sh, nodeKind, oldContent) ==
    partitionFrom(c, name, doc, nodeKind, oldContent, [sh |-> sh, i |-> 0, newContent |-> <<>>])

\* The split point case of descendRecursively after partitionNode returned:
\* node.Content = newContent and the count of the items kept.
setContent(res, node, step) ==
    [res.sh EXCEPT !.Content[node] = res.newContent,
                   !.itemsCountAfter = @ + (Len(res.newContent) \div step)]

\* The split point case of descendRecursively on a sequence or a mapping.
atSplitPoint(c, name, doc, sh, node) ==
    LET step == IF doc[node].Kind = "MappingNode" THEN 2 ELSE 1
        itemsCountBefore == Len(sh.Content[node]) \div step
    IN  setContent(partitionNode(c, name, doc,
                                 [sh EXCEPT !.anchors = IF doc[node].Anchor # ""
                                                        THEN MapSet(@, doc[node].Anchor, itemsCountBefore)
                                                        ELSE @,
                                            !.itemsCountBefore = @ + itemsCountBefore],
                                 doc[node].Kind, sh.Content[node]),
                   node, step)

\* The alias case at the split point without its default branch: a target of
\* any kind is counted with step 1.
aliasAtSplitPointAnyKind(c, doc, sh, node) ==
    LET target == doc[node].Alias
        step == IF doc[target].Kind = "MappingNode" THEN 2 ELSE 1
    IN  [sh EXCEPT !.itemsCountBefore = @ + MapGet(sh.anchors, doc[node].Value),
                   !.itemsCountAfter = @ + (Len(sh.Content[target]) \div step)]

\* The split point case of descendRecursively on an alias.
aliasAtSplitPoint(c, doc, sh, node) ==
    LET target == doc[node].Alias
        step == IF doc[target].Kind = "MappingNode" THEN 2 ELSE 1
    IN  IF doc[target].Kind \in {"SequenceNode", "MappingNode"}
        THEN [sh EXCEPT !.itemsCountBefore = @ + MapGet(sh.anchors, doc[node].Value),
                        !.itemsCountAfter = @ + (Len(sh.Content[target]) \div step)]
        ELSE [sh EXCEPT !.itemsCountBefore = @ + MapGet(sh.anchors, doc[node].Value),
                        !.err = NotShardable(c.splitPoint)]

RECURSIVE descendRecursively(_, _, _, _, _, _)
RECURSIVE dive(_, _, _, _, _, _)
RECURSIVE descendFrom(_, _, _, _, _, _, _)

\* The loop of descendRecursively over node.Content from index i: it stops at
\* the first error.
descendFrom(c, name, doc, sh, node, currPath, i) ==
    LET isMap == doc[node].Kind = "MappingNode"
        content == sh.Content[node]
        item == IF isMap THEN At(content, i + 1) ELSE At(content, i)
        pathElem == IF isMap THEN doc[At(content, i)].Value ELSE "*"
    IN  IF sh.err # "" \/ i >= Len(content) THEN sh
        ELSE descendFrom(c, name, doc,
                         descendRecursively(c, name, doc, sh, item, Append(currPath, pathElem)),
                         node, currPath, i + (IF isMap THEN 2 ELSE 1))

\* shard.descendRecursively(ctx, node, currPath): the context is checked before
\* each dive; dives counts the entries.
descendRecursively(c, name, doc, sh, node, currPath) ==
    IF Done(sh.ctx, sh.dives)
    THEN [sh EXCEPT !.err = Canceled(name, sh.ctx), !.dives = @ + 1]
    ELSE dive(c, name, doc, [sh EXCEPT !.dives = @ + 1], node, currPath)

\* descendRecursively past the check of the context, with the deferred
\* markVisited.
dive(c, name, doc, sh, node, currPath) ==
    LET at == whereAt(c.splitPoint, currPath)
        kind == doc[node].Kind
    IN  markVisited(IF at = 1 THEN sh
                    ELSE IF kind \in {"SequenceNode", "MappingNode"}
                    THEN IF at = 0 THEN atSplitPoint(c, name, doc, sh, node)
                         ELSE descendFrom(c, name, doc, sh, node, currPath, 0)
                    ELSE IF at # 0 THEN sh
                    ELSE IF kind = "AliasNode" THEN aliasAtSplitPoint(c, doc, sh, node)
                    ELSE [sh EXCEPT !.err = NotShardable(c.splitPoint)],
                    currPath)

\* The error of UnmarshalYAML for a split point the walk did not visit.
NotFound(splitPoint) == "split point path \"" \o Join(splitPoint, ".") \o "\" not found"

\* The error of Run for an error of yaml.Unmarshal.
FailedToUnmarshal(name, err) == "failed to unmarshal yaml for " \o name \o ": " \o err

\* The end of UnmarshalYAML: the error of the walk, or of a split point the
\* walk did not visit; headNode is the root, 0 (nil) after an error.
checkVisited(c, sh) ==
    LET found == Join(c.splitPoint, ".") \in sh.visitedPaths
        err == IF sh.err # "" THEN sh.err
               ELSE IF ~found THEN NotFound(c.splitPoint)
               ELSE ""
    IN  [sh EXCEPT !.err = err] @@ [headNode |-> IF err = "" THEN 1 ELSE 0]

\* shard.UnmarshalYAML(value)
UnmarshalYAML(c, name, doc, sh) ==
    checkVisited(c, descendRecursively(c, name, doc, sh, 1, <<>>))

\* The end of Run: the error it wraps, and whether the encoder wrote the tree
\* under headNode to output.
encode(name, sh) ==
    [sh EXCEPT !.err = IF sh.err # "" THEN FailedToUnmarshal(name, sh.err) ELSE ""]
    @@ [ran |-> TRUE, encoded |-> sh.err = ""]

\* shard.Run(ctx, input, output)
Run(ctx, c, name, doc) ==
    encode(name, UnmarshalYAML(c, name, doc, [Reset(doc) EXCEPT !.ctx = ctx]))

(***************************************************************************)
(* splitPoint: a Go string is the sequence of its characters               *)
(***************************************************************************)

\* Bound of the split point specification: the length of the string parsed.
MaxPathLen == 4

\* The characters of the strings parsed.
Chars == {"a", "*", ".", " "}

\* The string of a sequence of characters.
RECURSIVE Text(_)
Text(chars) == IF Len(chars) = 0 THEN "" ELSE Head(chars) \o Text(Tail(chars))

\* strings.Split(s, sep) from position i on, with the element read so far.
RECURSIVE SplitFrom(_, _, _, _)
SplitFrom(s, sep, i, elem) ==
    IF i > Len(s) THEN <<elem>>
    ELSE IF s[i] = sep THEN <<elem>> \o SplitFrom(s, sep, i + 1, <<>>)
    ELSE SplitFrom(s, sep, i + 1, Append(elem, s[i]))

\* strings.Split(s, sep) for a separator of one character
Split(s, sep) == SplitFrom(s, sep, 1, <<>>)

\* A TrimSpace that trims nothing.
TrimNothing(s) == s

\* strings.TrimSpace(s)
RECURSIVE TrimSpace(_)
TrimSpace(s) ==
    IF Len(s) = 0 THEN s
    ELSE IF Head(s) = " " THEN TrimSpace(Tail(s))
    ELSE IF s[Len(s)] = " " THEN TrimSpace(SubSeq(s, 1, Len(s) - 1))
    ELSE s

\* strings.Join(elems, sep) on sequences of characters
RECURSIVE JoinChars(_, _)
JoinChars(elems, sep) ==
    IF Len(elems) = 0 THEN <<>>
    ELSE IF Len(elems) = 1 THEN elems[1]
    ELSE elems[1] \o <<sep>> \o JoinChars(Tail(elems), sep)

\* The error of newSplitPoint(s)
InvalidSplitPoint(s) == "invalid split point path: \"" \o Text(s) \o "\""

\* The loop of newSplitPoint over sp from index i on.
RECURSIVE trimFrom(_, _, _)
trimFrom(s, sp, i) ==
    IF i >= Len(sp) THEN [err |-> "", slice |-> sp, str |-> JoinChars(sp, ".")]
    ELSE IF Len(TrimSpace(At(sp, i))) = 0
    THEN [err |-> InvalidSplitPoint(s), slice |-> <<>>, str |-> <<>>]
    ELSE trimFrom(s, [sp EXCEPT ![i + 1] = TrimSpace(@)], i + 1)

\* newSplitPoint(s): the error, or the splitPoint
newSplitPoint(s) == trimFrom(s, Split(s, "."), 0)

\* splitPoint.Len()
SplitPointLen(sp) == Len(sp.slice)

\* splitPoint.Elem(i): the element and the error
Elem(sp, i) ==
    IF i < 0 \/ i >= SplitPointLen(sp) THEN [val |-> <<>>, err |-> "index out of range: " \o ToString(i)]
    ELSE [val |-> At(sp.slice, i), err |-> ""]

\* The strings of at most n characters.
StringsUpTo(n) == UNION {[1..k -> Chars] : k \in 0..n}

\* sp, err := newSplitPoint(s)
DoNewSplitPoint(s) ==
    /\ last.op = ""
    /\ last' = [op |-> "newSplitPoint", s |-> s, sp |-> newSplitPoint(s)]
    /\ UNCHANGED <<hasher, nodes, nodeHashes, nodeNames, newErr, panicked, twin, cfg, input, shards, part, job, lookup>>

\* _, err = sp.Elem(i) on the splitPoint newSplitPoint returned
DoElem(i) ==
    /\ last.op = "newSplitPoint"
    /\ last.sp.err = ""
    /\ last' = [op |-> "Elem", s |-> last.s, sp |-> last.sp, i |-> i, elem |-> Elem(last.sp, i)]
    /\ UNCHANGED <<hasher, nodes, nodeHashes, nodeNames, newErr, panicked, twin, cfg, input, shards, part, job, lookup>>

NextSplitPoint ==
    \/ \E s \in StringsUpTo(MaxPathLen) : DoNewSplitPoint(s)
    \/ \E i \in (0 - 1)..(MaxPathLen + 1) : DoElem(i)

\* newSplitPoint on every short string, then Elem at every index.
SpecSplitPoint == InitHrw /\ [][NextSplitPoint]_vars

(***************************************************************************)
(* The shards of one document as a state machine                           *)
(***************************************************************************)

\* Bounds of the shard specification.
NumShards == 4
MaxReplicasCount == 2

\* The shard names of the tests.
shardNames == <<"alpha", "beta", "gamma", "delta", "epsilon">>

\* The split point paths of the tests: "items", "groups.*.rules" and "*".
SplitPoints ==
    { <<"i", "t", "e", "m", "s">>,
      <<"g", "r", "o", "u", "p", "s", ".", "*", ".", "r", "u", "l", "e", "s">>,
      <<"*">> }

\* The options of NewConfig that set a field it checks or can return an error.
Options == {"WithConsistentHashing", "WithReplicasCount", "WithSplitPoint", "WithThisShardID",
            "WithWorkingDirectory"}

\* What WithWorkingDirectory finds at its path: a directory, a file, nothing
\* (and os.MkdirAll makes the directory, or fails), an os.Stat that fails with
\* another error than not-exist, and a path filepath.Abs cannot make absolute.
WorkDirs == {"directory", "file", "absent", "unmakable", "unknown", "noabs"}

\* validateWorkDir(path): the error, "" for nil.
validateWorkDir(path) ==
    IF path = "directory" THEN ""
    ELSE IF path = "file" THEN "file is an existing file"
    ELSE IF path = "absent" THEN ""
    ELSE IF path = "unmakable" THEN "error making directory"
    ELSE "schrodinger: may or may not exist"

\* The error of the option WithWorkingDirectory(path) returns, "" for nil.
WithWorkingDirectory(path) ==
    IF path = "noabs" THEN "error getting absolute path" ELSE validateWorkDir(path)

\* The error of the option o, "" for nil: WithConsistentHashing(h) for a table
\* of less than two nodes, WithSplitPoint(s) for a string newSplitPoint does
\* not parse, WithWorkingDirectory(path) for a path it cannot use.
optionReturns(o) ==
    IF o.opt = "WithConsistentHashing"
    THEN (IF NodesCount(o.arg) < 2 THEN "number of nodes must be >= 2" ELSE "")
    ELSE IF o.opt = "WithSplitPoint" THEN newSplitPoint(o.arg).err
    ELSE IF o.opt = "WithWorkingDirectory" THEN WithWorkingDirectory(o.arg)
    ELSE ""

RECURSIVE optionErrorFrom(_, _)
\* The loop of NewConfig once the option before opts[i] returned err.
optionErrorAfter(err, opts, i) ==
    IF err # "" THEN err ELSE optionErrorFrom(opts, i)

optionErrorFrom(opts, i) ==
    IF i > Len(opts) THEN "" ELSE optionErrorAfter(optionReturns(opts[i]), opts, i + 1)

\* The loop of NewConfig over opts, the options in the order of the call: the
\* error of the first option that returns one.
optionError(opts) == optionErrorFrom(opts, 1)

\* The option name is among opts, and the argument of its last occurrence.
Given(opts, name) == \E i \in 1..Len(opts) : opts[i].opt = name
Arg(opts, name) ==
    opts[CHOOSE i \in 1..Len(opts) :
            /\ opts[i].opt = name
            /\ \A j \in (i + 1)..Len(opts) : opts[j].opt # name].arg

\* The elements of the split point sp, each as a string.
Elements(sp) == [k \in 1..Len(sp.slice) |-> Text(sp.slice[k])]

\* The Config after the options: the defaults of NewConfig, and what each
\* option given sets.  shardsCount is -1 for a nil consistentHashing,
\* splitPoint is <<>> for a nil splitPoint, and workDir is "TempDir" for the
\* default os.TempDir().
applyOptions(opts) ==
    [shardsCount |-> IF Given(opts, "WithConsistentHashing")
                     THEN NodesCount(Arg(opts, "WithConsistentHashing")) ELSE 0 - 1,
     replicasCount |-> IF Given(opts, "WithReplicasCount")
                       THEN (IF Arg(opts, "WithReplicasCount") < 1 THEN 1
                             ELSE Arg(opts, "WithReplicasCount"))
                       ELSE 1,
     splitPoint |-> IF Given(opts, "WithSplitPoint")
                    THEN Elements(newSplitPoint(Arg(opts, "WithSplitPoint")))
                    ELSE <<>>,
     thisShardID |-> IF Given(opts, "WithThisShardID") THEN Arg(opts, "WithThisShardID") ELSE 0 - 1,
     workDir |-> IF Given(opts, "WithWorkingDirectory") THEN Arg(opts, "WithWorkingDirectory")
                 ELSE "TempDir"]

\* The checks of NewConfig with the replication factor checked before the
\* shard id.
requiredReplicasFirst(c) ==
    IF c.shardsCount = 0 - 1 THEN "consistent hashing is not set"
    ELSE IF Len(c.splitPoint) = 0 THEN "split point path is not set"
    ELSE IF c.shardsCount < 2 THEN "number of nodes in consistent hashing must be >=2"
    ELSE IF c.replicasCount > c.shardsCount \div 2 THEN "replication factor is too big"
    ELSE IF c.thisShardID >= c.shardsCount THEN "this shard id is out of range"
    ELSE ""

\* The checks of NewConfig that follow the options, in their order.
required(c) ==
    IF c.shardsCount = 0 - 1 THEN "consistent hashing is not set"
    ELSE IF Len(c.splitPoint) = 0 THEN "split point path is not set"
    ELSE IF c.shardsCount < 2 THEN "number of nodes in consistent hashing must be >=2"
    ELSE IF c.thisShardID >= c.shardsCount THEN "this shard id is out of range"
    ELSE IF c.replicasCount > c.shardsCount \div 2 THEN "replication factor is too big"
    ELSE ""

\* The Config and the error NewConfig returns for the Config c the options
\* were applied to.
checked(optErr, c) ==
    [made |-> TRUE,
     err |-> IF optErr # "" THEN optErr ELSE required(c),
     replicasCount |-> c.replicasCount,
     splitPoint |-> c.splitPoint,
     thisShardID |-> c.thisShardID,
     workDir |-> c.workDir]

\* NewConfig(opts...): opts is the sequence of the options given, each the
\* name of an option with its argument.
NewConfig(opts) == checked(optionError(opts), applyOptions(opts))

\* The Config the shards read.
Cfg == [consistentHashing |-> R, replicasCount |-> cfg.replicasCount, splitPoint |-> cfg.splitPoint]

\* newShard(name, cfg)
newShard == Reset(<<>>) @@ [headNode |-> 0, ran |-> FALSE, encoded |-> FALSE]

\* rndv, _ := hrw.New(xxhash.Sum64, shardNames[:count]...); cfg, err :=
\* NewConfig(...); the input file is read; one shard per node name.
DoNewConfig(count, n, sp, doc) ==
    /\ hasher = ""
    /\ ~cfg.made
    /\ LET made == New("xxhash", Prefix(shardNames, count))
       IN  /\ newErr' = made.err
           /\ SetTable(made.r)
           /\ cfg' = NewConfig(<<[opt |-> "WithConsistentHashing", arg |-> made.r],
                                 [opt |-> "WithReplicasCount", arg |-> n],
                                 [opt |-> "WithSplitPoint", arg |-> sp]>>)
           /\ shards' = [name \in Range(made.r.nodeNames) |-> newShard]
    /\ input' = doc
    /\ UNCHANGED <<panicked, twin, last, part, job, lookup>>

\* shard.Run(ctx, input, output) of the shard of one name.
DoRun(name) ==
    /\ cfg.made
    /\ cfg.err = ""
    /\ name \in DOMAIN shards
    /\ ~shards[name].ran
    /\ shards' = [shards EXCEPT ![name] = Run(Background, Cfg, name, input)]
    /\ UNCHANGED <<hasher, nodes, nodeHashes, nodeNames, newErr, panicked, twin, last, cfg, input, part, job, lookup>>

NextShard ==
    \/ \E count \in 1..NumShards, n \in 0..MaxReplicasCount, sp \in SplitPoints, doc \in Documents :
          DoNewConfig(count, n, sp, doc)
    \/ \E name \in Range(shardNames) : DoRun(name)

\* A Config over a rendezvous table of shard names, and the shards run on one
\* document in any order.
SpecShard == InitHrw /\ [][NextShard]_vars

\* The strings given to WithSplitPoint: the split point paths of the tests,
\* and "", "." and "a..b" of Test_splitPointError.
ConfigStrings == SplitPoints \cup {<<>>, <<".">>, <<"a", ".", ".", "b">>}

\* The orders in which a call gives the three options that can return an
\* error.
OptionOrders ==
    {o \in [1..3 -> {"WithConsistentHashing", "WithSplitPoint", "WithWorkingDirectory"}] :
        \A a, b \in 1..3 : a # b => o[a] # o[b]}

\* The orders of OptionOrders for the options of given.
OrdersOf(given) == {SelectSeq(o, LAMBDA x : x \in given) : o \in OptionOrders}

\* The arguments an option of given is called with: those of args when the
\* option is given, the one argument unused when it is not.
ArgsOf(given, option, args, unused) == IF option \in given THEN args ELSE {unused}

\* The options of given with their arguments, those that can return an error
\* in the order first and the two others after them.
OptionsGiven(given, first, r, n, s, id, wd) ==
    LET order == first \o SelectSeq(<<"WithReplicasCount", "WithThisShardID">>,
                                    LAMBDA o : o \in given)
    IN  [k \in 1..Len(order) |->
            [opt |-> order[k],
             arg |-> IF order[k] = "WithConsistentHashing" THEN r
                     ELSE IF order[k] = "WithReplicasCount" THEN n
                     ELSE IF order[k] = "WithSplitPoint" THEN s
                     ELSE IF order[k] = "WithThisShardID" THEN id
                     ELSE wd]]

\* rndv, _ := hrw.New(xxhash.Sum64, shardNames[:count]...)
DoNewTable(made) ==
    /\ hasher = ""
    /\ ~cfg.made
    /\ newErr' = made.err
    /\ SetTable(made.r)
    /\ UNCHANGED <<panicked, twin, last, cfg, input, shards, part, job, lookup>>

\* _, err = NewConfig(...) with the options of given, over the table rndv.
DoNewConfigWith(given, first, n, s, id, wd) ==
    /\ hasher # ""
    /\ ~cfg.made
    /\ cfg' = NewConfig(OptionsGiven(given, first, R, n, s, id, wd))
    /\ last' = [op |-> "NewConfig", given |-> given, first |-> first, shardsCount |-> Len(nodeNames),
                n |-> n, s |-> s, id |-> id, wd |-> wd]
    /\ UNCHANGED <<hasher, nodes, nodeHashes, nodeNames, newErr, panicked, twin, input, shards, part, job, lookup>>

NextConfig ==
    \/ \E count \in 0..NumShards : DoNewTable(New("xxhash", Prefix(shardNames, count)))
    \/ /\ hasher # "" /\ ~cfg.made
       /\ \E given \in SUBSET Options :
          \E first \in OrdersOf(given),
             n \in ArgsOf(given, "WithReplicasCount", (0 - 1)..(MaxReplicasCount + 1), 1),
             s \in ArgsOf(given, "WithSplitPoint", ConfigStrings, <<>>),
             id \in ArgsOf(given, "WithThisShardID", (0 - 2)..NumShards, 0 - 1),
             wd \in ArgsOf(given, "WithWorkingDirectory", WorkDirs, "directory") :
             DoNewConfigWith(given, first, n, s, id, wd)

\* NewConfig with any of its options, over tables of 0..NumShards nodes.
SpecConfig == InitHrw /\ [][NextConfig]_vars

(***************************************************************************)
(* Partitioner: Run, its shard tasks and the output files                  *)
(***************************************************************************)

\* Bound of the partitioner specification: the number of shards.
MaxPartShards == 3

\* The inputs the partitioner is run on, each a split point with a document:
\* a sequence at "items" with plain items and with aliases, a scalar at
\* "items", an alias at "groups.*.rules", a document without the split point,
\* and the split point "*" on a mapping.
PartDocuments ==
    { [sp |-> <<"i", "t", "e", "m", "s">>, doc |-> DocPlain],
      [sp |-> <<"i", "t", "e", "m", "s">>, doc |-> DocDefaults],
      [sp |-> <<"i", "t", "e", "m", "s">>, doc |-> DocScalar],
      [sp |-> <<"g", "r", "o", "u", "p", "s", ".", "*", ".", "r", "u", "l", "e", "s">>, doc |-> DocAliasToChild],
      [sp |-> <<"g", "r", "o", "u", "p", "s", ".", "*", ".", "r", "u", "l", "e", "s">>, doc |-> DocPlain],
      [sp |-> <<"*">>, doc |-> DocPlain] }

\* The shard names Run and cleanupOnError range over: all of them, or the one
\* at index thisShardID.
Targeted(p) ==
    {At(nodeNames, i) : i \in {k \in 0..(Len(nodeNames) - 1) : ~(p.thisShardID >= 0 /\ p.thisShardID # k)}}

\* Partitioner.cleanupOnError()
cleanupOnError(p) == [p EXCEPT !.report = "failed", !.files = @ \ Targeted(p)]

\* gCtx, the context of the errgroup, becomes done with the error cause, unless
\* it is done already or Run has not made it yet.  mid keeps the shards whose
\* task had created its output file and not yet returned from shard.Run: their
\* walk may be under way.
gCancel(p, cause) ==
    IF ~p.gMade \/ p.gCtxErr # "" THEN p
    ELSE [p EXCEPT !.gCtxErr = cause,
                   !.mid = {name \in DOMAIN p.task : p.task[name] = "created"}]

\* Run returns err ("" for nil) once its deferred cancel() has returned.
\* cancel() cancels ctx and, in the same call, its child gCtx; on a ctx that
\* is done already it waits for the cancellation under way to reach gCtx,
\* which then has the error of ctx.
return(p, err) ==
    LET c == IF p.ctxErr # "" THEN p ELSE [p EXCEPT !.ctxErr = "context canceled"]
    IN  [gCancel(c, c.ctxErr) EXCEPT !.pc = "returned", !.ret = err]

\* setItemsBefore with p.totalItemsBefore < n for p.totalItemsBefore != n: a
\* shard that counted fewer items than the total passes.
setItemsBeforeLess(p, n) ==
    IF p.totalItemsBefore = 0 THEN [total |-> n, err |-> ""]
    ELSE IF p.totalItemsBefore < n THEN [total |-> p.totalItemsBefore, err |-> "items consistency error"]
    ELSE [total |-> p.totalItemsBefore, err |-> ""]

\* Partitioner.setItemsBefore(n): the total, and the error ("" for nil).
setItemsBefore(p, n) ==
    IF p.totalItemsBefore = 0 THEN [total |-> n, err |-> ""]
    ELSE IF p.totalItemsBefore # n THEN [total |-> p.totalItemsBefore, err |-> "items consistency error"]
    ELSE [total |-> p.totalItemsBefore, err |-> ""]

\* The first statement of Reset(): p.totalItemsBefore = 0.  The call goes on
\* to its second statement; reset tells that Reset was called from outside Run.
resetTotal(p) == [p EXCEPT !.totalItemsBefore = 0, !.resetPc = "95", !.reset = TRUE]

\* setItemsBefore(n) when the first statement of a Reset() of another
\* goroutine, which takes no lock, falls between its two reads of
\* p.totalItemsBefore: the first read is not 0, the second is.
setItemsBeforeReset(p, n) ==
    [total |-> 0, err |-> IF 0 # n THEN "items consistency error" ELSE ""]

\* shard.Run under a context that is done when the walk starts (ctxErr is its
\* error), or is never done (ctxErr "").
RunCtx(c, name, doc, ctxErr) == Run([err |-> ctxErr, after |-> 0], c, name, doc)

\* shard.Run under a context that became done, with the error cause, while the
\* walk was under way: the walk full of the shard polls the context at each
\* entry into descendRecursively, and k entries were made before it was done;
\* after its last entry the walk does not see it.
RunMid(c, name, doc, cause, full) ==
    {full} \cup {Run([err |-> cause, after |-> k], c, name, doc) : k \in 0..(full.dives - 1)}

\* New(inputFile, commonPath, opts...) over a table of count shard names; pre
\* is the set of shards whose output file an earlier run left in workDir.
DoNewPartitioner(count, n, sp, doc, id, readable, pre) ==
    /\ hasher = ""
    /\ ~cfg.made
    /\ LET made == New("xxhash", Prefix(shardNames, count))
           config == NewConfig(<<[opt |-> "WithConsistentHashing", arg |-> made.r],
                                 [opt |-> "WithReplicasCount", arg |-> n],
                                 [opt |-> "WithSplitPoint", arg |-> sp],
                                 [opt |-> "WithThisShardID", arg |-> id]>>)
       IN  /\ config.err = ""
           /\ newErr' = made.err
           /\ SetTable(made.r)
           /\ cfg' = config
           /\ shards' = [name \in Range(made.r.nodeNames) |-> newShard]
           /\ part' = [made |-> TRUE, thisShardID |-> config.thisShardID, readable |-> readable,
                       pc |-> "Run", i |-> 0, j |-> 0, launched |-> <<>>,
                       task |-> [name \in Range(made.r.nodeNames) |-> ""],
                       pre |-> pre \cap Range(made.r.nodeNames),
                       files |-> pre \cap Range(made.r.nodeNames),
                       ctxErr |-> "", gMade |-> FALSE, gCtxErr |-> "", gErr |-> "",
                       mid |-> {}, reset |-> FALSE, resetPc |-> "idle",
                       totalItemsBefore |-> 0, shardItemsCount |-> <<>>,
                       report |-> "", err |-> "", ret |-> ""]
    /\ input' = doc
    /\ UNCHANGED <<panicked, twin, last, job, lookup>>

\* The head of Run: Reset, the deadline, os.ReadFile and, when the file was
\* read, the errgroup, whose context gCtx is a child of ctx and is done from
\* the start when ctx is.
RunRead ==
    /\ part.made /\ part.pc = "Run"
    /\ part' = IF part.readable
               THEN [part EXCEPT !.pc = "loop", !.totalItemsBefore = 0, !.shardItemsCount = <<>>,
                                 !.gMade = TRUE, !.gCtxErr = part.ctxErr]
               ELSE [part EXCEPT !.pc = "readFailed", !.totalItemsBefore = 0, !.shardItemsCount = <<>>,
                                 !.err = "failed to read input file"]
    /\ UNCHANGED <<hasher, nodes, nodeHashes, nodeNames, newErr, panicked, twin, last, cfg, input, shards, job, lookup>>

\* os.ReadFile failed: p.cleanupOnError()
RunReadCleanup ==
    /\ part.made /\ part.pc = "readFailed"
    /\ part' = [cleanupOnError(part) EXCEPT !.pc = "readCleaned"]
    /\ UNCHANGED <<hasher, nodes, nodeHashes, nodeNames, newErr, panicked, twin, last, cfg, input, shards, job, lookup>>

\* os.ReadFile failed: the return of "failed to read input file: ..."
RunReadReturn ==
    /\ part.made /\ part.pc = "readCleaned"
    /\ part' = return(part, part.err)
    /\ UNCHANGED <<hasher, nodes, nodeHashes, nodeNames, newErr, panicked, twin, last, cfg, input, shards, job, lookup>>

\* The context ctx of Run is done: its deadline passed, or the caller canceled
\* it.  Its done channel is closed; its child gCtx is canceled after it.
CtxDone(cause) ==
    /\ part.made /\ part.pc # "returned"
    /\ part.ctxErr = ""
    /\ part' = [part EXCEPT !.ctxErr = cause]
    /\ UNCHANGED <<hasher, nodes, nodeHashes, nodeNames, newErr, panicked, twin, last, cfg, input, shards, job, lookup>>

\* The cancellation of ctx reaches its child gCtx, which takes the error of ctx.
GCtxDone ==
    /\ part.made /\ part.gMade
    /\ part.ctxErr # "" /\ part.gCtxErr = ""
    /\ part' = gCancel(part, part.ctxErr)
    /\ UNCHANGED <<hasher, nodes, nodeHashes, nodeNames, newErr, panicked, twin, last, cfg, input, shards, job, lookup>>

\* One round of the loop over NodeNames(): skip the shard, leave the loop on a
\* context that is done, or start the task of the shard with g.Go.
RunLoop ==
    /\ part.made /\ part.pc = "loop"
    /\ LET name == At(nodeNames, part.i)
       IN  part' = IF part.i >= Len(nodeNames) THEN [part EXCEPT !.pc = "Wait"]
                   ELSE IF part.thisShardID >= 0 /\ part.thisShardID # part.i
                   THEN [part EXCEPT !.i = @ + 1]
                   ELSE IF part.ctxErr # ""
                   THEN [part EXCEPT !.pc = "cleanup"]
                   ELSE [part EXCEPT !.i = @ + 1,
                                     !.launched = Append(@, name),
                                     !.task[name] = "go"]
    /\ UNCHANGED <<hasher, nodes, nodeHashes, nodeNames, newErr, panicked, twin, last, cfg, input, shards, job, lookup>>

\* The loop found ctx done: p.cleanupOnError(), while the tasks started in
\* earlier rounds go on.
RunLoopCleanup ==
    /\ part.made /\ part.pc = "cleanup"
    /\ part' = [cleanupOnError(part) EXCEPT !.pc = "canceled"]
    /\ UNCHANGED <<hasher, nodes, nodeHashes, nodeNames, newErr, panicked, twin, last, cfg, input, shards, job, lookup>>

\* The loop found ctx done: the return of "<name> canceled: <ctx.Err()>"
\* without g.Wait().
RunLoopReturn ==
    /\ part.made /\ part.pc = "canceled"
    /\ part' = return(part, At(nodeNames, part.i) \o " canceled: " \o part.ctxErr)
    /\ UNCHANGED <<hasher, nodes, nodeHashes, nodeNames, newErr, panicked, twin, last, cfg, input, shards, job, lookup>>

\* The errors createOutputFile(path) can return: that of os.MkdirAll, wrapped,
\* and that of os.OpenFile.
CreateErrors == {"failed to make directory", "open"}

\* createOutputFile(path) on a file system that answers with failure ("" when
\* both calls succeed): the error, and whether the file exists afterwards, fs
\* telling whether it existed before.
createOutputFile(fs, failure) ==
    [err |-> failure, exists |-> fs \/ failure = ""]

\* The task returns err without having opened its output file: the first error
\* of the group cancels gCtx.
taskReturns(p, name, err) ==
    [gCancel(p, "context canceled") EXCEPT
              !.task[name] = "failed",
              !.gErr = IF @ = "" THEN err ELSE @]

\* The task of a shard: createOutputFile(outputFile), and the return of its
\* error.
TaskCreate(name, failure) ==
    /\ part.made /\ name \in DOMAIN part.task
    /\ part.task[name] = "go"
    /\ LET made == createOutputFile(name \in part.files, failure)
           files == IF made.exists THEN part.files \cup {name} ELSE part.files \ {name}
       IN  part' = IF made.err # ""
                   THEN [taskReturns(part, name, made.err) EXCEPT !.files = files]
                   ELSE [part EXCEPT !.task[name] = "created", !.files = files]
    /\ UNCHANGED <<hasher, nodes, nodeHashes, nodeNames, newErr, panicked, twin, last, cfg, input, shards, job, lookup>>

\* The task of a shard once shard.Run returned, leaving the shard sh.
taskRan(name, sh) ==
    /\ shards' = [shards EXCEPT ![name] = sh]
    /\ part' = [part EXCEPT !.task[name] = "ran"]
    /\ UNCHANGED <<hasher, nodes, nodeHashes, nodeNames, newErr, panicked, twin, last, cfg, input, job, lookup>>

\* What shard.Run(gCtx, input, f) can leave in the shard: gCtx is polled at
\* each entry into descendRecursively, so a walk that was under way when gCtx
\* became done (by the deadline, the caller or the error of another task) is
\* canceled at its next entry, and a walk that starts later at its first.
walks(p, c, name, doc) ==
    IF p.gCtxErr = "" THEN {Run(Background, c, name, doc)}
    ELSE IF name \in p.mid THEN RunMid(c, name, doc, p.gCtxErr, Run(Background, c, name, doc))
    ELSE {RunCtx(c, name, doc, p.gCtxErr)}

\* The task of a shard: shard.Run(gCtx, input, f)
TaskRun(name) ==
    /\ part.made /\ name \in DOMAIN part.task
    /\ part.task[name] = "created"
    /\ \E sh \in walks(part, Cfg, name, input) : taskRan(name, sh)

\* The task returns err: the file is removed, and the first error of the group
\* cancels gCtx.
taskFails(p, name, err) ==
    [gCancel(p, "context canceled") EXCEPT
              !.task[name] = "failed",
              !.files = @ \ {name},
              !.gErr = IF @ = "" THEN err ELSE @]

\* The task once setItemsBefore returned: with an error it goes on to remove
\* its file and return the error, else it has ended.
taskEnds(p, name, counted) ==
    [p EXCEPT !.task[name] = IF counted.err # "" THEN "failing" ELSE "done",
              !.totalItemsBefore = counted.total]

\* The task of a shard after shard.Run: the error path, or setItemsBefore.
TaskFinish(name) ==
    /\ part.made /\ name \in DOMAIN part.task
    /\ part.task[name] = "ran"
    /\ part' = IF shards[name].err # "" THEN taskFails(part, name, shards[name].err)
               ELSE taskEnds(part, name, setItemsBefore(part, shards[name].itemsCountBefore))
    /\ UNCHANGED <<hasher, nodes, nodeHashes, nodeNames, newErr, panicked, twin, last, cfg, input, shards, job, lookup>>

\* The same when the first statement of a Reset() of another goroutine falls
\* inside setItemsBefore.
TaskFinishReset(name) ==
    /\ part.made /\ name \in DOMAIN part.task
    /\ part.task[name] = "ran"
    /\ shards[name].err = ""
    /\ part.totalItemsBefore # 0
    /\ part.resetPc = "idle"
    /\ part' = taskEnds(resetTotal(part), name,
                        setItemsBeforeReset(part, shards[name].itemsCountBefore))
    /\ UNCHANGED <<hasher, nodes, nodeHashes, nodeNames, newErr, panicked, twin, last, cfg, input, shards, job, lookup>>

\* The task of a shard whose setItemsBefore returned the error: f.Close(),
\* os.Remove(outputFile) and the return of the error to the group.
TaskFail(name) ==
    /\ part.made /\ name \in DOMAIN part.task
    /\ part.task[name] = "failing"
    /\ part' = taskFails(part, name, "items consistency error")
    /\ UNCHANGED <<hasher, nodes, nodeHashes, nodeNames, newErr, panicked, twin, last, cfg, input, shards, job, lookup>>

\* g.Wait() returns when every task has returned, and cancels gCtx; its error
\* is the first error a task returned.
RunWait ==
    /\ part.made /\ part.pc = "Wait"
    /\ \A name \in Range(part.launched) : part.task[name] \in {"done", "failed"}
    /\ part' = IF part.gErr # ""
               THEN [gCancel(part, "context canceled") EXCEPT
                        !.pc = "waitFailed", !.err = "failed to partition: " \o part.gErr]
               ELSE [gCancel(part, "context canceled") EXCEPT !.pc = "report", !.j = 0]
    /\ UNCHANGED <<hasher, nodes, nodeHashes, nodeNames, newErr, panicked, twin, last, cfg, input, shards, job, lookup>>

\* g.Wait() returned an error: p.cleanupOnError()
RunWaitCleanup ==
    /\ part.made /\ part.pc = "waitFailed"
    /\ part' = [cleanupOnError(part) EXCEPT !.pc = "waitCleaned"]
    /\ UNCHANGED <<hasher, nodes, nodeHashes, nodeNames, newErr, panicked, twin, last, cfg, input, shards, job, lookup>>

\* g.Wait() returned an error: the return of "failed to partition ...: ..."
RunWaitReturn ==
    /\ part.made /\ part.pc = "waitCleaned"
    /\ part' = return(part, part.err)
    /\ UNCHANGED <<hasher, nodes, nodeHashes, nodeNames, newErr, panicked, twin, last, cfg, input, shards, job, lookup>>

\* The report loop keeping the output file of a shard without items.
reportShardKeepFile(p, name, sh) ==
    [p EXCEPT !.pc = "report",
              !.j = @ + 1,
              !.shardItemsCount = MapSet(@, name, sh.itemsCountAfter)]

\* One round of the report loop of Run on the shard sh after setItemsBefore:
\* the items count, and no output file for a shard without items.
reportShard(p, name, sh) ==
    [p EXCEPT !.pc = "report",
              !.j = @ + 1,
              !.shardItemsCount = MapSet(@, name, sh.itemsCountAfter),
              !.files = IF sh.itemsCountAfter = 0 THEN @ \ {name} ELSE @]

\* The report loop once setItemsBefore returned: on to the error path, or to
\* the count of the shard.
reportCounted(p, counted) ==
    IF counted.err # ""
    THEN [p EXCEPT !.pc = "reportFailed", !.totalItemsBefore = counted.total, !.err = counted.err]
    ELSE [p EXCEPT !.pc = "count", !.totalItemsBefore = counted.total]

\* The report loop of Run over the shards it started, up to setItemsBefore,
\* and the return of nil after its last round.
RunReport ==
    /\ part.made /\ part.pc = "report"
    /\ LET name == At(part.launched, part.j)
       IN  part' = IF part.j >= Len(part.launched)
                   THEN return([part EXCEPT !.report = "finished"], "")
                   ELSE reportCounted(part, setItemsBefore(part, shards[name].itemsCountBefore))
    /\ UNCHANGED <<hasher, nodes, nodeHashes, nodeNames, newErr, panicked, twin, last, cfg, input, shards, job, lookup>>

\* The same when the first statement of a Reset() of another goroutine falls
\* inside setItemsBefore.
RunReportReset ==
    /\ part.made /\ part.pc = "report"
    /\ part.j < Len(part.launched)
    /\ part.totalItemsBefore # 0
    /\ part.resetPc = "idle"
    /\ LET name == At(part.launched, part.j)
       IN  part' = reportCounted(resetTotal(part),
                                 setItemsBeforeReset(part, shards[name].itemsCountBefore))
    /\ UNCHANGED <<hasher, nodes, nodeHashes, nodeNames, newErr, panicked, twin, last, cfg, input, shards, job, lookup>>

\* setItemsBefore returned an error in the report loop: p.cleanupOnError()
RunReportCleanup ==
    /\ part.made /\ part.pc = "reportFailed"
    /\ part' = [cleanupOnError(part) EXCEPT !.pc = "reportCleaned"]
    /\ UNCHANGED <<hasher, nodes, nodeHashes, nodeNames, newErr, panicked, twin, last, cfg, input, shards, job, lookup>>

\* setItemsBefore returned an error in the report loop: the return of it.
RunReportReturn ==
    /\ part.made /\ part.pc = "reportCleaned"
    /\ part' = return(part, part.err)
    /\ UNCHANGED <<hasher, nodes, nodeHashes, nodeNames, newErr, panicked, twin, last, cfg, input, shards, job, lookup>>

\* The report loop after setItemsBefore: p.shardItemsCount[shard.name] and the
\* output file of the shard.
RunReportCount ==
    /\ part.made /\ part.pc = "count"
    /\ LET name == At(part.launched, part.j)
       IN  part' = reportShard(part, name, shards[name])
    /\ UNCHANGED <<hasher, nodes, nodeHashes, nodeNames, newErr, panicked, twin, last, cfg, input, shards, job, lookup>>

\* Partitioner.Reset(), the exported method, called by the owner of the
\* Partitioner from any goroutine, during Run or after it; it takes no lock.
\* Its first statement: p.totalItemsBefore = 0
ResetTotal ==
    /\ part.made
    /\ part.resetPc = "idle"
    /\ part' = resetTotal(part)
    /\ UNCHANGED <<hasher, nodes, nodeHashes, nodeNames, newErr, panicked, twin, last, cfg, input, shards, job, lookup>>

\* The second statement of Reset(): p.shardItemsCount = make(map[string]int, ...)
ResetMap ==
    /\ part.made
    /\ part.resetPc = "95"
    /\ part' = [part EXCEPT !.shardItemsCount = <<>>, !.resetPc = "idle"]
    /\ UNCHANGED <<hasher, nodes, nodeHashes, nodeNames, newErr, panicked, twin, last, cfg, input, shards, job, lookup>>

\* The output files an earlier run left in workDir: none, or one for every
\* shard.  The runs over all of MaxPartShards shards start from an empty
\* workDir when the input is readable.
LeftFiles(count, id, readable) ==
    IF count < MaxPartShards \/ id >= 0 \/ ~readable THEN {{}, Range(shardNames)} ELSE {{}}

\* The inputs of a run: the runs of all of MaxPartShards shards take the
\* document whose shards count different numbers of items, the smaller runs
\* any of PartDocuments.
PartInputs(count, id) ==
    IF count < MaxPartShards \/ id >= 0 THEN PartDocuments
    ELSE {in \in PartDocuments : in.doc = DocAliasToChild}

NextPart ==
    \/ \E count \in 2..MaxPartShards, id \in (0 - 1)..(MaxPartShards - 1), readable \in BOOLEAN :
          \E in \in PartInputs(count, id), pre \in LeftFiles(count, id, readable) :
              DoNewPartitioner(count, 1, in.sp, in.doc, id, readable, pre)
    \/ RunRead
    \/ RunReadCleanup
    \/ RunReadReturn
    \/ \E cause \in {"context deadline exceeded", "context canceled"} : CtxDone(cause)
    \/ GCtxDone
    \/ RunLoop
    \/ RunLoopCleanup
    \/ RunLoopReturn
    \/ \E name \in Range(shardNames), failure \in {""} \cup CreateErrors : TaskCreate(name, failure)
    \/ \E name \in Range(shardNames) : TaskRun(name)
    \/ \E name \in Range(shardNames) : TaskFinish(name)
    \/ \E name \in Range(shardNames) : TaskFinishReset(name)
    \/ \E name \in Range(shardNames) : TaskFail(name)
    \/ RunWait
    \/ RunWaitCleanup
    \/ RunWaitReturn
    \/ RunReport
    \/ RunReportReset
    \/ RunReportCleanup
    \/ RunReportReturn
    \/ RunReportCount
    \/ ResetTotal
    \/ ResetMap

\* One Partitioner over one input file: Run in one goroutine, the tasks of the
\* shards in theirs, the file system that may fail createOutputFile, the
\* context that may be done at any moment, and the owner of the Partitioner
\* that may call Reset at any moment.
SpecPart == InitHrw /\ [][NextPart]_vars

\* The inputs whose walk makes several entries into descendRecursively, each
\* a split point with a document: a sequence at "items", two sequences at
\* "groups.*.rules", and the split point "*" on the mapping that holds them.
CancelDocuments ==
    { [sp |-> <<"i", "t", "e", "m", "s">>, doc |-> DocPlain],
      [sp |-> <<"g", "r", "o", "u", "p", "s", ".", "*", ".", "r", "u", "l", "e", "s">>, doc |-> DocGroups],
      [sp |-> <<"*">>, doc |-> DocGroups] }

NextCancel ==
    \/ \E count \in 2..MaxPartShards, in \in CancelDocuments, id \in (0 - 1)..(MaxPartShards - 1) :
          DoNewPartitioner(count, 1, in.sp, in.doc, id, TRUE, {})
    \/ RunRead
    \/ \E cause \in {"context deadline exceeded", "context canceled"} : CtxDone(cause)
    \/ GCtxDone
    \/ RunLoop
    \/ RunLoopCleanup
    \/ RunLoopReturn
    \/ \E name \in Range(shardNames), failure \in {""} \cup CreateErrors : TaskCreate(name, failure)
    \/ \E name \in Range(shardNames) : TaskRun(name)
    \/ \E name \in Range(shardNames) : TaskFinish(name)
    \/ \E name \in Range(shardNames) : TaskFinishReset(name)
    \/ \E name \in Range(shardNames) : TaskFail(name)
    \/ RunWait
    \/ RunWaitCleanup
    \/ RunWaitReturn
    \/ RunReport
    \/ RunReportReset
    \/ RunReportCleanup
    \/ RunReportReturn
    \/ RunReportCount
    \/ ResetTotal
    \/ ResetMap

\* One Partitioner over CancelDocuments, its input file readable and its
\* context done at any moment, the walk of a shard included.
SpecCancel == InitHrw /\ [][NextCancel]_vars

(***************************************************************************)
(* job: run, one goroutine per input file, errs                            *)
(***************************************************************************)

\* Bound of the job specification: the number of input files.
MaxFiles == 2

\* The input files: a readable file holds a document.
JobFiles ==
    { [readable |-> TRUE, doc |-> DocPlain],
      [readable |-> TRUE, doc |-> DocScalar],
      [readable |-> FALSE, doc |-> <<>>] }

\* The errors Partitioner.Run can return once its shards res have run under a
\* context that is not done: the error of a shard that failed, the items
\* consistency error of a task or of the report loop, or nil.
partitioned(res) ==
    IF \E name \in DOMAIN res : res[name].err # ""
    THEN {"failed to partition: " \o res[name].err : name \in {n \in DOMAIN res : res[n].err # ""}}
    ELSE IF \E a, b \in DOMAIN res : res[a].itemsCountBefore # res[b].itemsCountBefore
    THEN {"failed to partition: items consistency error", "items consistency error"}
    ELSE {""}

\* The errors Partitioner.Run can return for a readable file under the Config
\* c and a context that is not done.
yields(c, file) ==
    IF ~file.readable THEN {}
    ELSE partitioned([name \in Range(c.consistentHashing.nodeNames) |->
                         Run(Background, c, name, file.doc)])

\* The errors Partitioner.Run returns when its context became done, with the
\* error ctxErr, while it ran: a round of its loop saw it before the task of a
\* shard was started, or the walk of a shard saw it at an entry into
\* descendRecursively and g.Wait() returned the error of that task.
canceledDuring(names, ctxErr) ==
    {name \o " canceled: " \o ctxErr : name \in names}
    \cup {"failed to partition: "
              \o FailedToUnmarshal(name, Canceled(name, [err |-> ctxErr, after |-> 0])) :
          name \in names}

\* The errors Partitioner.Run returns when createOutputFile failed in the task
\* of a shard.
CreateFailed == {"failed to partition: " \o e : e \in CreateErrors}

\* The errors p.Run(ctx) can return for the file, under a context whose error
\* is ctxErr ("" when it is not done); during tells that it became done after
\* Run was entered, and errs is what the shards of the file yield when no
\* step of Run sees the context done and every output file is created.
RunErrors(file, ctxErr, during, errs) ==
    IF ~file.readable THEN {"failed to read input file"}
    ELSE IF ctxErr = "" THEN errs \cup CreateFailed
    ELSE IF ~during THEN {At(nodeNames, 0) \o " canceled: " \o ctxErr}
    ELSE canceledDuring(Range(nodeNames), ctxErr) \cup errs \cup CreateFailed

\* Init() up to the job: the Config over two shards, the split point "items"
\* and the directory os.MkdirTemp made, and no Partitioner yet.
newJob(made) ==
    /\ newErr' = made.err
    /\ SetTable(made.r)
    /\ cfg' = NewConfig(<<[opt |-> "WithConsistentHashing", arg |-> made.r],
                          [opt |-> "WithReplicasCount", arg |-> 1],
                          [opt |-> "WithSplitPoint", arg |-> <<"i", "t", "e", "m", "s">>],
                          [opt |-> "WithThisShardID", arg |-> 0 - 1],
                          [opt |-> "WithWorkingDirectory", arg |-> "directory"]>>)
    /\ job' = [made |-> TRUE, files |-> <<>>, moveFails |-> FALSE,
               mkdirFailed |-> FALSE, moveFailed |-> FALSE, seenDone |-> FALSE,
               workDir |-> "made",
               yields |-> <<>>,
               pc |-> "Init",
               ret |-> "",
               ctxErr |-> "",
               task |-> <<>>,
               pCtxErr |-> <<>>,
               during |-> <<>>,
               err |-> <<>>,
               n |-> <<>>,
               arr |-> <<>>,
               len |-> 0,
               errs |-> <<>>]

DoNewJob ==
    /\ hasher = ""
    /\ ~cfg.made
    /\ ~job.made
    /\ newJob(New("xxhash", Prefix(shardNames, 2)))
    /\ UNCHANGED <<panicked, twin, last, input, shards, part, lookup>>

\* Init(), one turn of its loop over inputFiles: partitioner.WithConfig(cfg,
\* file, commonPath) for one more file.  yields keeps what the shards of the
\* file yield when its Partitioner runs.
JobAddFile(file) ==
    /\ job.made /\ job.pc = "Init"
    /\ cfg.made /\ cfg.err = ""
    /\ Len(job.files) < MaxFiles
    /\ job' = [job EXCEPT !.files = Append(@, file),
                          !.yields = Append(@, yields(Cfg, file))]
    /\ UNCHANGED <<hasher, nodes, nodeHashes, nodeNames, newErr, panicked, twin, last, cfg, input, shards, part, lookup>>

\* run up to its loop: os.MkdirAll on the destination directory, and the
\* return of its error.  mkdirFails tells whether os.MkdirAll returns an
\* error, and moveFails whether filesutil.MoveDirAll will.  errs is made with
\* the capacity len(job.partitioners): arr is its array and len its length.
JobRun(mkdirFails, moveFails) ==
    /\ job.made /\ job.pc = "Init"
    /\ Len(job.files) >= 1
    /\ job' = [job EXCEPT !.moveFails = moveFails,
                          !.mkdirFailed = mkdirFails,
                          !.pc = IF mkdirFails THEN "returned" ELSE "fanout",
                          !.ret = IF mkdirFails THEN "failed to make directory" ELSE "",
                          !.task = [f \in DOMAIN job.files |-> ""],
                          !.pCtxErr = [f \in DOMAIN job.files |-> ""],
                          !.during = [f \in DOMAIN job.files |-> FALSE],
                          !.err = [f \in DOMAIN job.files |-> ""],
                          !.n = [f \in DOMAIN job.files |-> 0],
                          !.arr = [f \in DOMAIN job.files |-> ""]]
    /\ UNCHANGED <<hasher, nodes, nodeHashes, nodeNames, newErr, panicked, twin, last, cfg, input, shards, part, lookup>>

\* The caller cancels the context of run, at any moment before run returns:
\* before os.MkdirAll, while the partitioners run, and before or after the
\* select that follows wg.Wait().  The contexts Partitioner.Run derived from
\* it are done with it.
JobCtxDone ==
    /\ job.made /\ job.pc # "returned"
    /\ job.ctxErr = ""
    /\ job' = [job EXCEPT !.ctxErr = "context canceled",
                          !.pCtxErr = [f \in DOMAIN @ |->
                                          IF job.task[f] = "Run" /\ @[f] = ""
                                          THEN "context canceled" ELSE @[f]],
                          !.during = [f \in DOMAIN @ |->
                                         @[f] \/ (job.task[f] = "Run" /\ job.pCtxErr[f] = "")]]
    /\ UNCHANGED <<hasher, nodes, nodeHashes, nodeNames, newErr, panicked, twin, last, cfg, input, shards, part, lookup>>

\* wg.Add(1); go func(p) {...}(prt) for one partitioner of the map
JobGo(f) ==
    /\ job.made /\ job.pc = "fanout"
    /\ f \in DOMAIN job.task
    /\ job.task[f] = ""
    /\ job' = [job EXCEPT !.task[f] = "go"]
    /\ UNCHANGED <<hasher, nodes, nodeHashes, nodeNames, newErr, panicked, twin, last, cfg, input, shards, part, lookup>>

\* The goroutine of a file enters p.Run(ctx): context.WithTimeout(ctx, ...)
\* derives a context that is done when ctx is.
FileStart(f) ==
    /\ job.made
    /\ f \in DOMAIN job.task
    /\ job.task[f] = "go"
    /\ job' = [job EXCEPT !.task[f] = "Run", !.pCtxErr[f] = job.ctxErr]
    /\ UNCHANGED <<hasher, nodes, nodeHashes, nodeNames, newErr, panicked, twin, last, cfg, input, shards, part, lookup>>

\* The deadline of the context of one Partitioner.Run passes.
FileDeadline(f) ==
    /\ job.made
    /\ f \in DOMAIN job.task
    /\ job.task[f] = "Run"
    /\ job.pCtxErr[f] = ""
    /\ job' = [job EXCEPT !.pCtxErr[f] = "context deadline exceeded", !.during[f] = TRUE]
    /\ UNCHANGED <<hasher, nodes, nodeHashes, nodeNames, newErr, panicked, twin, last, cfg, input, shards, part, lookup>>

\* A cancel shared by the files: the context of every Partitioner.Run is done.
cancelShared(j, f) ==
    [j EXCEPT !.pCtxErr = [g \in DOMAIN @ |-> IF @[g] = "" THEN "context canceled" ELSE @[g]]]

\* The deferred cancel() of Partitioner.Run, and the cancel of its errgroup:
\* the context derived for the file f is done, and no other.
cancel(j, f) ==
    [j EXCEPT !.pCtxErr[f] = IF @ = "" THEN "context canceled" ELSE @]

\* p.Run(ctx) of the file f returns err; with nil the goroutine calls
\* wg.Done().
returned(j, f, err) ==
    [j EXCEPT !.task[f] = IF err = "" THEN "done" ELSE "ran", !.err[f] = err]

\* p.Run(ctx) returns
FileRun(f, err) ==
    /\ job.made
    /\ f \in DOMAIN job.task
    /\ job.task[f] = "Run"
    /\ job' = returned(cancel(job, f), f, err)
    /\ UNCHANGED <<hasher, nodes, nodeHashes, nodeNames, newErr, panicked, twin, last, cfg, input, shards, part, lookup>>

\* errs = append(errs, ...) in the goroutine, no lock held: it reads the slice
\* errs ...
FileAppendRead(f) ==
    /\ job.made
    /\ f \in DOMAIN job.task
    /\ job.task[f] = "ran"
    /\ job' = [job EXCEPT !.task[f] = "append", !.n[f] = job.len]
    /\ UNCHANGED <<hasher, nodes, nodeHashes, nodeNames, newErr, panicked, twin, last, cfg, input, shards, part, lookup>>

\* ... and stores the string after the length it read and assigns the longer
\* slice to errs; then wg.Done().
FileAppendWrite(f) ==
    /\ job.made
    /\ f \in DOMAIN job.task
    /\ job.task[f] = "append"
    /\ job' = [job EXCEPT !.task[f] = "done",
                          !.arr[job.n[f] + 1] = "[!] " \o job.err[f],
                          !.len = job.n[f] + 1]
    /\ UNCHANGED <<hasher, nodes, nodeHashes, nodeNames, newErr, panicked, twin, last, cfg, input, shards, part, lookup>>

\* wg.Wait() returns once every goroutine has called wg.Done().
JobWait ==
    /\ job.made /\ job.pc = "fanout"
    /\ \A f \in DOMAIN job.files : job.task[f] = "done"
    /\ job' = [job EXCEPT !.pc = "select"]
    /\ UNCHANGED <<hasher, nodes, nodeHashes, nodeNames, newErr, panicked, twin, last, cfg, input, shards, part, lookup>>

\* The select of run on ctx.Done(): the context is found done, or not.
JobSelect ==
    /\ job.made /\ job.pc = "select"
    /\ job' = [job EXCEPT !.pc = IF job.ctxErr # "" THEN "remove" ELSE "move",
                          !.seenDone = job.ctxErr # ""]
    /\ UNCHANGED <<hasher, nodes, nodeHashes, nodeNames, newErr, panicked, twin, last, cfg, input, shards, part, lookup>>

\* The context was found done: os.RemoveAll(job.cfg.WorkDir())
JobRemove ==
    /\ job.made /\ job.pc = "remove"
    /\ job' = [job EXCEPT !.pc = "canceled", !.workDir = "removed"]
    /\ UNCHANGED <<hasher, nodes, nodeHashes, nodeNames, newErr, panicked, twin, last, cfg, input, shards, part, lookup>>

\* The context was found done: the return of "context canceled: <ctx.Err()>"
JobCanceled ==
    /\ job.made /\ job.pc = "canceled"
    /\ job' = [job EXCEPT !.pc = "returned", !.ret = "context canceled: " \o job.ctxErr]
    /\ UNCHANGED <<hasher, nodes, nodeHashes, nodeNames, newErr, panicked, twin, last, cfg, input, shards, part, lookup>>

\* The context was not found done: filesutil.MoveDirAll(workDir, dstDir), and
\* the append of its error to errs, which no goroutine touches any more.
JobMove ==
    /\ job.made /\ job.pc = "move"
    /\ job' = [job EXCEPT !.pc = "summary",
                          !.moveFailed = job.moveFails,
                          !.workDir = IF job.moveFails THEN @ ELSE "moved",
                          !.errs = IF job.moveFails
                                   THEN Append(SubSeq(job.arr, 1, job.len), "[!] failed to move")
                                   ELSE SubSeq(job.arr, 1, job.len)]
    /\ UNCHANGED <<hasher, nodes, nodeHashes, nodeNames, newErr, panicked, twin, last, cfg, input, shards, part, lookup>>

\* The end of run once errs holds the errors of the files and of the move:
\* the reports, and the return of the summary error, or of nil.
summary(j, errs) ==
    [j EXCEPT !.pc = "returned",
              !.ret = IF Len(errs) > 0
                      THEN "partitioning finished with " \o ToString(Len(errs))
                           \o " error(s):\n" \o Join(errs, "\n")
                      ELSE ""]

\* The reports of run and its return.
JobSummary ==
    /\ job.made /\ job.pc = "summary"
    /\ job' = summary(job, job.errs)
    /\ UNCHANGED <<hasher, nodes, nodeHashes, nodeNames, newErr, panicked, twin, last, cfg, input, shards, part, lookup>>

\* The steps of run and of its goroutines.
JobSteps ==
    \/ \E f \in 1..MaxFiles : JobGo(f)
    \/ \E f \in 1..MaxFiles : FileStart(f)
    \/ \E f \in 1..MaxFiles :
          \E err \in (IF job.made /\ f \in DOMAIN job.task /\ job.task[f] = "Run"
                      THEN RunErrors(job.files[f], job.pCtxErr[f], job.during[f], job.yields[f])
                      ELSE {}) :
              FileRun(f, err)
    \/ \E f \in 1..MaxFiles : FileAppendRead(f)
    \/ \E f \in 1..MaxFiles : FileAppendWrite(f)
    \/ JobWait
    \/ JobSelect
    \/ JobRemove
    \/ JobCanceled
    \/ JobMove
    \/ JobSummary

NextJob ==
    \/ DoNewJob
    \/ \E file \in JobFiles : JobAddFile(file)
    \/ \E mkdirFails \in BOOLEAN, moveFails \in BOOLEAN : JobRun(mkdirFails, moveFails)
    \/ JobCtxDone
    \/ \E f \in 1..MaxFiles : FileDeadline(f)
    \/ JobSteps

\* One job over 1..MaxFiles input files: run, the goroutine of each file, the
\* caller that may cancel the context and the deadlines that may pass.
SpecJob == InitHrw /\ [][NextJob]_vars

\* The same job with run and its goroutines scheduled: a step of theirs that
\* stays possible is taken.
SpecJobLive == SpecJob /\ WF_vars(JobSteps)

(***************************************************************************)
(* Properties of the shards                                                *)
(***************************************************************************)

\* The item nodes of the content of a node of a kind: the values of a mapping,
\* the elements of a sequence.
Items(kind, content) ==
    IF kind = "MappingNode"
    THEN {content[i] : i \in {j \in 1..Len(content) : j % 2 = 0}}
    ELSE Range(content)

RECURSIVE Located(_, _, _)
\* The nodes of doc under node, each with its path: the key for a value of a
\* mapping, "*" for an element of a sequence.
Located(doc, node, path) ==
    LET content == doc[node].Content
    IN  {<<node, path>>} \cup
        (IF doc[node].Kind = "MappingNode"
         THEN UNION {Located(doc, content[i], Append(path, doc[content[i - 1]].Value)) :
                        i \in {j \in 1..Len(content) : j % 2 = 0}}
         ELSE UNION {Located(doc, content[i], Append(path, "*")) : i \in 1..Len(content)})

\* The split-point containers of doc: the sequences and mappings at the path.
SplitContainers(doc, splitPoint) ==
    {p[1] : p \in {q \in Located(doc, 1, <<>>) :
                      q[2] = splitPoint /\ doc[q[1]].Kind \in {"SequenceNode", "MappingNode"}}}

\* The children of a container of the input.
Children(node) == Items(input[node].Kind, input[node].Content)

\* The children of a container that the output of shard s keeps.
KeptOn(s, node) == Items(input[node].Kind, shards[s].Content[node])

RECURSIVE Under(_, _)
\* The nodes of the tree under node, by the content the encoder walks.
Under(content, node) ==
    {node} \cup UNION {Under(content, content[node][i]) : i \in 1..Len(content[node])}

\* Run returned nil on shard s.
RanWell(s) == shards[s].ran /\ shards[s].err = ""

\* Partitioning succeeded: every shard ran and none failed.
Succeeded == cfg.made /\ cfg.err = "" /\ \A s \in DOMAIN shards : RanWell(s)

\* C1: when partitioning succeeds with replication factor RF < N, every child
\* of every split-point container, plain, anchored or alias, is kept in the
\* output of exactly RF shards.
C1_ChildrenOnRFShards ==
    Succeeded =>
        \A node \in SplitContainers(input, cfg.splitPoint) :
            \A child \in Children(node) :
                Cardinality({s \in DOMAIN shards : child \in KeptOn(s, node)}) = cfg.replicasCount

\* C2: on every shard, an alias child of a split-point container that points
\* to the anchored child of a split-point container is kept exactly when that
\* child is kept; no alias child is handed to the hash.
C2_AliasFollowsAnchor ==
    \A s \in DOMAIN shards :
        RanWell(s) =>
            \A c2 \in SplitContainers(input, cfg.splitPoint) :
                \A x \in Children(c2) :
                    input[x].Kind = "AliasNode" =>
                        /\ x \notin shards[s].hashed
                        /\ \A c1 \in SplitContainers(input, cfg.splitPoint) :
                              (input[x].Alias \in Children(c1) /\ input[input[x].Alias].Anchor # "")
                                  => (x \in KeptOn(s, c2) <=> input[x].Alias \in KeptOn(s, c1))

\* An alias child and the anchored child it points to are both kept on one
\* shard and both dropped on another.
C2_Witness ==
    \E s, t \in DOMAIN shards :
        /\ RanWell(s) /\ RanWell(t)
        /\ \E c1, c2 \in SplitContainers(input, cfg.splitPoint) :
              \E x \in Children(c2) :
                  /\ input[x].Kind = "AliasNode"
                  /\ input[x].Alias \in Children(c1)
                  /\ x \in KeptOn(s, c2) /\ input[x].Alias \in KeptOn(s, c1)
                  /\ x \notin KeptOn(t, c2) /\ input[x].Alias \notin KeptOn(t, c1)

\* C3: in the output tree of every shard, every alias node that remains refers
\* to a node that remains in that tree.  Stated for the shards that keep at
\* least one item, whose output file the partitioner leaves in place.
C3_NoDanglingAlias ==
    \A s \in DOMAIN shards :
        (RanWell(s) /\ shards[s].encoded /\ shards[s].itemsCountAfter > 0) =>
            \A x \in Under(shards[s].Content, shards[s].headNode) :
                input[x].Kind = "AliasNode"
                    => input[x].Alias \in Under(shards[s].Content, shards[s].headNode)

\* C13: the shards of one document whose Run returned nil report the same
\* itemsCountBefore, whatever the document and the split point: an alias at the
\* split point and anchored children included.
C13_CountConsistency ==
    \A s, t \in DOMAIN shards :
        (RanWell(s) /\ RanWell(t)) => shards[s].itemsCountBefore = shards[t].itemsCountBefore

RECURSIVE SumOver(_, _)
\* The sum of f[x] over the x of S.
SumOver(f, S) ==
    IF S = {} THEN 0
    ELSE LET x == CHOOSE y \in S : TRUE IN f[x] + SumOver(f, S \ {x})

\* The items of doc before partitioning: the children of every container at the
\* split point and, for every alias at the split point, those of its target.
ItemsBefore(doc, splitPoint) ==
    LET at == {q \in Located(doc, 1, <<>>) : q[2] = splitPoint}
        count == [q \in at |->
                    LET n == IF doc[q[1]].Kind = "AliasNode" THEN doc[q[1]].Alias ELSE q[1]
                    IN  Cardinality(Items(doc[n].Kind, doc[n].Content))]
    IN  SumOver(count, at)

\* C14: when every shard succeeds, the itemsCountAfter of the shards add up to
\* the replication factor times the items before partitioning, and every shard
\* reports that number of items as itemsCountBefore.
C14_SumIsRFTimesBefore ==
    Succeeded =>
        /\ SumOver([s \in DOMAIN shards |-> shards[s].itemsCountAfter], DOMAIN shards)
              = cfg.replicasCount * ItemsBefore(input, cfg.splitPoint)
        /\ \A s \in DOMAIN shards : shards[s].itemsCountBefore = ItemsBefore(input, cfg.splitPoint)

\* The nodes of doc whose path is the split point, element by element.
AtSplitPath(doc, splitPoint) == {q[1] : q \in {r \in Located(doc, 1, <<>>) : r[2] = splitPoint}}

\* C15: Run fails with the split-point-path-not-found error exactly when the
\* document has no node whose path equals the split point element by element,
\* and on such a document no Run returns nil.
C15_NotFoundIffNotReached ==
    \A s \in DOMAIN shards :
        shards[s].ran =>
            /\ (shards[s].err = FailedToUnmarshal(s, NotFound(cfg.splitPoint)))
                  <=> (AtSplitPath(input, cfg.splitPoint) = {})
            /\ (AtSplitPath(input, cfg.splitPoint) = {}) => ~RanWell(s)

\* A node that cannot be partitioned: neither a sequence nor a mapping, nor an
\* alias of one.
Unshardable(doc, n) ==
    LET kind == IF doc[n].Kind = "AliasNode" THEN doc[doc[n].Alias].Kind ELSE doc[n].Kind
    IN  kind \notin {"SequenceNode", "MappingNode"}

\* C16: when a node at the split point is a scalar, or an alias whose target is
\* neither a sequence nor a mapping, Run fails with the not-shardable error and
\* the encoder writes nothing.
C16_NotShardable ==
    \A s \in DOMAIN shards :
        (shards[s].ran /\ \E n \in AtSplitPath(input, cfg.splitPoint) : Unshardable(input, n))
            => /\ shards[s].err = FailedToUnmarshal(s, NotShardable(cfg.splitPoint))
               /\ ~shards[s].encoded
               /\ shards[s].headNode = 0

\* A shard failed on a scalar at the split point after it had partitioned a
\* sequence at the split point, and wrote nothing.
C16_Witness ==
    \E s \in DOMAIN shards :
        /\ shards[s].ran
        /\ shards[s].err = FailedToUnmarshal(s, NotShardable(cfg.splitPoint))
        /\ ~shards[s].encoded
        /\ \E n \in AtSplitPath(input, cfg.splitPoint) : input[n].Kind = "ScalarNode"
        /\ shards[s].itemsCountBefore > 0

RECURSIVE IsSubsequence(_, _)
\* a is b with some elements left out.
IsSubsequence(a, b) ==
    IF a = <<>> THEN TRUE
    ELSE IF b = <<>> THEN FALSE
    ELSE IF Head(a) = Head(b) THEN IsSubsequence(Tail(a), Tail(b))
    ELSE IsSubsequence(a, Tail(b))

\* C17: in the output of every shard, the content kept in a split-point
\* container is a subsequence of its content in the input, and in a mapping
\* every kept key is followed by the value it had in the input.
C17_OrderPreserved ==
    \A s \in DOMAIN shards :
        RanWell(s) =>
            \A node \in SplitContainers(input, cfg.splitPoint) :
                LET kept == shards[s].Content[node]
                    old == input[node].Content
                IN  /\ IsSubsequence(kept, old)
                    /\ input[node].Kind = "MappingNode"
                          => /\ Len(kept) % 2 = 0
                             /\ \A i \in {j \in 1..Len(kept) : j % 2 = 1} :
                                   \E k \in {j \in 1..Len(old) : j % 2 = 1} :
                                       kept[i] = old[k] /\ kept[i + 1] = old[k + 1]

\* A shard kept two pairs of a mapping of three and dropped one.
C17_Witness ==
    \E s \in DOMAIN shards :
        /\ RanWell(s)
        /\ \E node \in SplitContainers(input, cfg.splitPoint) :
              /\ input[node].Kind = "MappingNode"
              /\ Len(shards[s].Content[node]) = 4
              /\ Len(input[node].Content) = 6

\* C18: in the tree of every shard, a node that is not a sequence or mapping at
\* the split point (above it, off its path or below it) has the child list of
\* the input; the kind, value and anchor of a node are never assigned.
C18_OnlySplitPointChanges ==
    \A s \in DOMAIN shards :
        shards[s].ran =>
            \A n \in 1..Len(input) :
                n \notin SplitContainers(input, cfg.splitPoint)
                    => shards[s].Content[n] = input[n].Content

\* A shard dropped a child of the split point and left alone a mapping off the
\* path of the split point, as deep as the split point.
C18_Witness ==
    \E s \in DOMAIN shards :
        /\ RanWell(s)
        /\ \E c \in SplitContainers(input, cfg.splitPoint) : shards[s].Content[c] # input[c].Content
        /\ \E q \in Located(input, 1, <<>>) :
              /\ Len(q[2]) = Len(cfg.splitPoint) /\ q[2] # cfg.splitPoint
              /\ input[q[1]].Kind = "MappingNode"
              /\ shards[s].Content[q[1]] = input[q[1]].Content

\* C19: once Run has returned nil, the output file of every targeted shard
\* exists exactly when the shard kept at least one item, and ShardItemsCount()
\* holds the itemsCountAfter of every targeted shard, as long as the owner of
\* the Partitioner has not called Reset, which empties the counts.
C19_EmptyShardPolicy ==
    (part.made /\ part.pc = "returned" /\ part.ret = "")
        => /\ \A name \in Targeted(part) :
                 name \in part.files <=> shards[name].itemsCountAfter > 0
           /\ ~part.reset =>
                 /\ DOMAIN part.shardItemsCount = Targeted(part)
                 /\ \A name \in Targeted(part) :
                       part.shardItemsCount[name] = shards[name].itemsCountAfter

\* Run returned nil for all shards; one shard kept no item and has no file,
\* another kept one and has its file.
C19_Witness ==
    /\ part.made /\ part.pc = "returned" /\ part.ret = ""
    /\ ~part.reset
    /\ part.thisShardID < 0
    /\ \E s, t \in Targeted(part) :
          /\ shards[s].itemsCountAfter = 0 /\ s \notin part.files
          /\ shards[t].itemsCountAfter > 0 /\ t \in part.files

\* C20: once Run has returned an error, no output file of a targeted shard
\* exists, at the moment of the return and ever after.
C20_FailureCleanup ==
    (part.made /\ part.pc = "returned" /\ part.ret # "")
        => part.files \cap Targeted(part) = {}

\* C28: on every shard whose Run returned nil, itemsCountAfter is at most
\* itemsCountBefore, also when the split path is an alias whose anchor is
\* outside the split path or on a child of the split point.
C28_AfterAtMostBefore ==
    \A s \in DOMAIN shards :
        RanWell(s) => shards[s].itemsCountAfter <= shards[s].itemsCountBefore

\* C25: with the split path "*" alone and a mapping at the document root, the
\* value of each top-level key is at the split point and is partitioned, so
\* no Run fails with the split-point-path-not-found error.
C25_StarOnMappingRoot ==
    \A s \in DOMAIN shards :
        (shards[s].ran /\ cfg.splitPoint = <<"*">> /\ input[1].Kind = "MappingNode")
            => shards[s].err # FailedToUnmarshal(s, NotFound(cfg.splitPoint))

\* An element of s between two dots, or between a dot and an end of s, that
\* holds nothing but spaces: a is the position of the dot before it (0 for the
\* start of s) and b the position of the dot after it.
BlankElement(s) ==
    \E a \in 0..Len(s), b \in 1..(Len(s) + 1) :
        /\ a < b
        /\ a = 0 \/ s[a] = "."
        /\ b = Len(s) + 1 \/ s[b] = "."
        /\ \A k \in (a + 1)..(b - 1) : s[k] = " "

\* No element of s has a space next to a dot or to an end of s.
NoSurroundingSpace(s) ==
    \A k \in 1..Len(s) :
        s[k] = " " => /\ k > 1 /\ s[k - 1] # "."
                      /\ k < Len(s) /\ s[k + 1] # "."

\* C24: newSplitPoint(s) fails with the invalid-split-point-path error exactly
\* when s is empty or an element of s between dots is empty after trimming;
\* when it succeeds there is at least one element, every element is non-empty
\* and trimmed, String() is the elements joined by dots, which is s when no
\* element of s has surrounding spaces, and Elem(i) returns an error exactly
\* when i < 0 or i >= Len().
C24_SplitPointParsing ==
    last.op \in {"newSplitPoint", "Elem"} =>
        LET s == last.s
            sp == last.sp
        IN  /\ (sp.err # "") <=> (Len(s) = 0 \/ BlankElement(s))
            /\ sp.err # "" => sp.err = InvalidSplitPoint(s)
            /\ sp.err = "" =>
                  /\ Len(sp.slice) >= 1
                  /\ \A k \in 1..Len(sp.slice) :
                         LET e == sp.slice[k]
                         IN  /\ Len(e) >= 1
                             /\ e[1] # " " /\ e[Len(e)] # " "
                             /\ \A j \in 1..Len(e) : e[j] # "."
                  /\ sp.str = JoinChars(sp.slice, ".")
                  /\ NoSurroundingSpace(s) => sp.str = s
            /\ last.op = "Elem" =>
                  /\ (last.elem.err # "") <=> (last.i < 0 \/ last.i >= Len(sp.slice))
                  /\ last.elem.err = "" => last.elem.val = sp.slice[last.i + 1]

\* newSplitPoint trimmed the spaces around an element of a path of two
\* elements, and Elem was called at the index Len().
C24_Witness ==
    /\ last.op = "Elem"
    /\ Len(last.sp.slice) = 2
    /\ last.sp.str # last.s
    /\ last.i = Len(last.sp.slice)
    /\ last.elem.err # ""

\* The consistent hashing of the call of NewConfig is set.
HashingSet == "WithConsistentHashing" \in last.given

\* The split path of the call of NewConfig is set: WithSplitPoint was given a
\* string that is a split path.
SplitPathSet ==
    /\ "WithSplitPoint" \in last.given
    /\ Len(last.s) > 0
    /\ ~BlankElement(last.s)

\* The shard id and the replica count of the call of NewConfig.
ShardIDGiven == IF "WithThisShardID" \in last.given THEN last.id ELSE 0 - 1
ReplicasGiven == IF "WithReplicasCount" \in last.given THEN last.n ELSE 1

\* C23 as stated: NewConfig returns an error exactly when consistent hashing
\* or the split path is unset, the node count N is below 2, thisShardID >= N
\* or the replica count exceeds floor(N/2); the shard id error is reported
\* before the replication error when both apply; a replica count below 1 is
\* taken as 1; every other configuration is accepted.
C23_OnlyListedErrors ==
    last.op = "NewConfig" =>
        LET N == last.shardsCount
            replicas == Max(ReplicasGiven, 1)
            wellSet == HashingSet /\ SplitPathSet /\ N >= 2
        IN  /\ (cfg.err # "") <=>
                   (~wellSet \/ ShardIDGiven >= N \/ replicas > N \div 2)
            /\ (wellSet /\ ShardIDGiven >= N) => cfg.err = "this shard id is out of range"
            /\ (wellSet /\ ShardIDGiven < N /\ replicas > N \div 2)
                   => cfg.err = "replication factor is too big"
            /\ cfg.err = "" => /\ cfg.replicasCount = replicas
                               /\ cfg.thisShardID = ShardIDGiven

\* The working directory of the call of NewConfig cannot be used:
\* WithWorkingDirectory was given a path that is a file, that is absent and
\* cannot be made, that os.Stat cannot tell about or that has no absolute form.
WorkDirUnusable ==
    /\ "WithWorkingDirectory" \in last.given
    /\ last.wd \in {"file", "unmakable", "unknown", "noabs"}

\* C23: NewConfig returns an error exactly when consistent hashing or the
\* split path is unset, the node count N is below 2, the working directory
\* given cannot be used, thisShardID >= N or the replica count exceeds
\* floor(N/2); the error of the working directory is reported before those of
\* the shard id and the replica count, and the shard id error before the
\* replication error when both apply; a replica count below 1 is taken as 1;
\* every other configuration is accepted.
C23_NewConfigValidation ==
    last.op = "NewConfig" =>
        LET N == last.shardsCount
            replicas == Max(ReplicasGiven, 1)
            wellSet == HashingSet /\ SplitPathSet /\ N >= 2
        IN  /\ (cfg.err # "") <=>
                   (~wellSet \/ WorkDirUnusable \/ ShardIDGiven >= N \/ replicas > N \div 2)
            /\ (wellSet /\ WorkDirUnusable) =>
                   cfg.err \in {"file is an existing file", "error making directory",
                                "schrodinger: may or may not exist", "error getting absolute path"}
            /\ (wellSet /\ ~WorkDirUnusable /\ ShardIDGiven >= N)
                   => cfg.err = "this shard id is out of range"
            /\ (wellSet /\ ~WorkDirUnusable /\ ShardIDGiven < N /\ replicas > N \div 2)
                   => cfg.err = "replication factor is too big"
            /\ cfg.err = "" => /\ cfg.replicasCount = replicas
                               /\ cfg.thisShardID = ShardIDGiven

\* NewConfig was given a working directory that is an existing file together
\* with a shard id out of range and a replica count that is too big, all else
\* being set, and reported the working directory.
C23_Witness ==
    /\ last.op = "NewConfig"
    /\ HashingSet /\ SplitPathSet /\ last.shardsCount >= 2
    /\ "WithWorkingDirectory" \in last.given /\ last.wd = "file"
    /\ ShardIDGiven >= last.shardsCount
    /\ ReplicasGiven > last.shardsCount \div 2
    /\ cfg.err = "file is an existing file"

\* The launched shards whose Run returned nil.
Reported == {name \in Range(part.launched) : shards[name].ran /\ shards[name].err = ""}

\* Two shards whose Run returned nil counted different itemsCountBefore.
Disagreement ==
    \E a, b \in Reported : shards[a].itemsCountBefore # shards[b].itemsCountBefore

\* The errors Run returns when setItemsBefore refused a count: from its report
\* loop, and from g.Wait() when that was the first error of a task.
ConsistencyErrors == {"items consistency error", "failed to partition: items consistency error"}

\* C26 as stated: in whatever order the tasks of the shards end, Run returns
\* nil only if every launched shard reported the same itemsCountBefore, a
\* shard reporting 0 among shards reporting more included; when two shards
\* disagree Run returns the items consistency error and no output file of a
\* targeted shard is left.  (The owner of the Partitioner has not called
\* Reset.)
C26_AlwaysConsistencyError ==
    (part.made /\ part.pc = "returned" /\ ~part.reset) =>
        /\ part.ret = "" =>
              /\ Reported = Range(part.launched)
              /\ ~Disagreement
        /\ Disagreement =>
              /\ part.ret \in ConsistencyErrors
              /\ part.files \cap Targeted(part) = {}

\* Run returned from its loop, on a context it found done: the tasks it had
\* started may still be running.
ReturnedFromLoop ==
    /\ part.i < Len(nodeNames)
    /\ part.ret = At(nodeNames, part.i) \o " canceled: " \o part.ctxErr

\* C26: in whatever order the tasks of the shards end, Run returns nil only if
\* every launched shard reported the same itemsCountBefore; when two shards
\* disagree Run returns an error: that of its loop when the loop found the
\* context done, else the error of g.Wait(), which is the items consistency
\* error unless a task had returned another error before (createOutputFile or
\* shard.Run failed, the latter also by cancellation), else the items
\* consistency error of the report loop; and when Run did not return from its
\* loop every task has ended and no output file of a targeted shard is left.
\* (The owner of the Partitioner has not called Reset.)
C26_ItemsConsistency ==
    (part.made /\ part.pc = "returned" /\ ~part.reset) =>
        /\ part.ret = "" =>
              /\ Reported = Range(part.launched)
              /\ ~Disagreement
        /\ (Disagreement /\ ~ReturnedFromLoop) =>
              /\ part.ret \in {"failed to partition: " \o part.gErr, "items consistency error"}
              /\ part.gErr \in {"", "items consistency error"} => part.ret \in ConsistencyErrors
              /\ part.files \cap Targeted(part) = {}
              /\ \A name \in Range(part.launched) : part.task[name] \in {"done", "failed"}

\* Two shards counted different numbers of items in their walks, the task of
\* the second to end got the error of setItemsBefore, and Run returned it from
\* g.Wait() with no output file left.
C26_Witness ==
    /\ part.made /\ part.pc = "returned" /\ ~part.reset
    /\ part.ret = "failed to partition: items consistency error"
    /\ Disagreement
    /\ \A name \in Reported : shards[name].itemsCountBefore > 0
    /\ part.files \cap Targeted(part) = {}

\* The loop of Run returned on a context it found done before the shard at
\* index part.i.
LoopCanceled == part.made /\ part.pc = "returned" /\ ReturnedFromLoop

\* C27: a walk whose context is done from its entry number k into
\* descendRecursively returns the canceled error at that entry and makes no
\* entry after it, so nothing more is partitioned; shard.Run returns the error
\* and the encoder writes nothing; once the loop of Run has seen the context
\* done, no task of a later shard is ever started.
C27_CooperativeCancel ==
    /\ \A s \in DOMAIN shards :
          (shards[s].ran /\ shards[s].ctx.err # "") =>
              /\ shards[s].err = FailedToUnmarshal(s, Canceled(s, shards[s].ctx))
              /\ shards[s].dives = shards[s].ctx.after + 1
              /\ ~shards[s].encoded
              /\ shards[s].headNode = 0
    /\ LoopCanceled =>
          /\ \A k \in part.i..(Len(nodeNames) - 1) : part.task[At(nodeNames, k)] = ""
          /\ Range(part.launched) \subseteq {At(nodeNames, k) : k \in 0..(part.i - 1)}

\* The context was done during the walk of a shard that had partitioned a
\* split-point container: the walk stopped at its next entry, and the loop of
\* Run then returned without starting the next shard.
C27_Witness ==
    /\ LoopCanceled
    /\ \E s \in Range(part.launched) :
          /\ shards[s].ran
          /\ shards[s].ctx.err # "" /\ shards[s].ctx.after >= 1
          /\ shards[s].itemsCountBefore > 0
          /\ ~shards[s].encoded

\* A run with thisShardID = -1 over the shards res, which maps each shard name
\* to the shard its Run leaves: it returns nil when every Run returned nil and
\* all shards counted the same itemsCountBefore (C26).
AllShardsRunSucceeds(res) ==
    /\ \A a \in DOMAIN res : res[a].err = ""
    /\ \A a, b \in DOMAIN res : res[a].itemsCountBefore = res[b].itemsCountBefore

\* What the shard name gets in a run with thisShardID = -1 is what the
\* single-shard run left: the tree and the counts of the shard, and the output
\* file.
SameAsInAllShardsRun(name, res) ==
    /\ AllShardsRunSucceeds(res)
    /\ shards[name].Content = res[name].Content
    /\ shards[name].itemsCountBefore = res[name].itemsCountBefore
    /\ shards[name].itemsCountAfter = res[name].itemsCountAfter
    /\ (name \in part.files) <=> (res[name].itemsCountAfter > 0)

\* C22: a run with thisShardID = i >= 0 starts the task of shard i only and
\* leaves the output path of every other shard as it was; when it returns nil,
\* shard i has the output, itemsCountBefore and itemsCountAfter it gets in a
\* run with thisShardID = -1 on the same input and configuration.
C22_SingleShardAgrees ==
    (part.made /\ part.thisShardID >= 0) =>
        /\ Range(part.launched) \subseteq {At(nodeNames, part.thisShardID)}
        /\ \A name \in Range(nodeNames) \ {At(nodeNames, part.thisShardID)} :
               /\ part.task[name] = ""
               /\ (name \in part.files) <=> (name \in part.pre)
        /\ (part.pc = "returned" /\ part.ret = "") =>
               SameAsInAllShardsRun(At(nodeNames, part.thisShardID),
                                    [name \in Range(nodeNames) |-> Run(Background, Cfg, name, input)])

\* The table an Add or a Remove of the other goroutine leaves when nothing
\* runs beside it, and whether the call panics.
Mutated ==
    IF last.op = "Add" THEN [panic |-> FALSE, r |-> Add(last.pre, last.names)]
    ELSE Remove(last.pre, last.names[1])

\* C29: a Get or GetN that ran while an Add or a Remove was under way, the
\* table satisfying the table invariant before and after that call, did not
\* index outside nodeNames or nodeHashes and returned only names of the table
\* before or after the call.
C29_LookupDuringMutation ==
    (lookup.op # "" /\ lookup.pc = "done" /\ lookup.overlap
        /\ WellFormed(last.pre) /\ ~Mutated.panic /\ WellFormed(Mutated.r)) =>
        /\ ~lookup.panic
        /\ lookup.val \subseteq (Range(last.pre.nodeNames) \cup Range(Mutated.r.nodeNames))

\* The files whose Partitioner.Run returned an error.
FailedFiles == {f \in DOMAIN job.err : job.err[f] # ""}

\* run reached its error summary: os.MkdirAll succeeded and the context was
\* not found done after wg.Wait().
Summarised ==
    /\ job.made /\ job.pc = "returned"
    /\ ~job.mkdirFailed
    /\ ~job.seenDone

\* C30: when k of the partitioners running in their goroutines failed, the
\* error run returns lists k file errors, one for each failed file, and the
\* error of the move if it failed.
C30_ErrorsComplete ==
    Summarised =>
        /\ Len(job.errs) = Cardinality(FailedFiles) + (IF job.moveFailed THEN 1 ELSE 0)
        /\ \A f \in FailedFiles : \E i \in 1..Len(job.errs) : job.errs[i] = "[!] " \o job.err[f]

\* The file can be partitioned: it is readable and each node at the split
\* point is a sequence or a mapping.
GoodFile(file) ==
    /\ file.readable
    /\ AtSplitPath(file.doc, cfg.splitPoint) # {}
    /\ \A n \in AtSplitPath(file.doc, cfg.splitPoint) : ~Unshardable(file.doc, n)

\* The goroutine of the file f was started, and Partitioner.Run of the file f
\* returned.
Started(f) == job.made /\ f \in DOMAIN job.task /\ job.task[f] = "go"
Returned(f) == job.made /\ f \in DOMAIN job.task /\ job.task[f] \in {"ran", "append", "done"}

\* The partitioner of a file that can be partitioned returns nil, or the
\* error of createOutputFile on an output file of its own, whatever the other
\* files did, unless the caller canceled the job or the deadline of its own
\* Run passed.
RunsToCompletion ==
    job.made =>
        \A f \in DOMAIN job.files :
            (Returned(f) /\ GoodFile(job.files[f]) /\ job.ctxErr = ""
                /\ job.pCtxErr[f] # "context deadline exceeded") => job.err[f] \in {""} \cup CreateFailed

\* As stated: run returns an error exactly when a file failed, the move
\* failed, or the context of the job was canceled.
ErrorIffListed ==
    (job.made /\ job.pc = "returned") =>
        ((job.ret # "") <=> \/ FailedFiles # {}
                            \/ job.moveFailed
                            \/ job.ctxErr # "")

\* C21 as stated: errors do not cascade between files, and run returns an
\* error exactly when a file failed, the move into the destination directory
\* failed, or the context of the job was canceled.
C21_ErrorIffListed ==
    /\ []RunsToCompletion
    /\ []ErrorIffListed
    /\ \A f \in 1..MaxFiles : Started(f) ~> Returned(f)

\* run returns an error exactly when os.MkdirAll on the destination directory
\* failed, the select after wg.Wait() found the context of the job done, a
\* file failed, or the move failed.
NoCascade ==
    /\ RunsToCompletion
    /\ (job.made /\ job.pc = "returned") =>
           ((job.ret # "") <=> \/ job.mkdirFailed
                               \/ job.seenDone
                               \/ FailedFiles # {}
                               \/ job.moveFailed)

\* C21: errors do not cascade between files.  The failure of the partitioner
\* of one file never cancels the partitioner of another file nor keeps it from
\* running to completion: every goroutine started runs Partitioner.Run to its
\* return, and a file that can be partitioned returns nil or the error of its
\* own output file; run returns an error exactly when a file failed, the move
\* failed, the destination directory could not be made, or the context of the
\* job was canceled before the select that follows wg.Wait() (a cancellation
\* after that select does not make run fail).
C21_NoCascade ==
    /\ []NoCascade
    /\ \A f \in 1..MaxFiles : Started(f) ~> Returned(f)

\* run returned an error over two files: the partitioner of one failed and the
\* partitioner of the other returned nil.
C21_Witness ==
    /\ job.made /\ job.pc = "returned"
    /\ job.ctxErr = "" /\ ~job.mkdirFailed /\ ~job.moveFailed
    /\ job.ret # ""
    /\ \E f, g \in DOMAIN job.files :
          /\ job.err[f] # ""
          /\ GoodFile(job.files[g]) /\ job.err[g] = "" /\ job.task[g] = "done"
====
